---- MODULE Spec2Model ----
(***************************************************************************)
(* Model of the request/response pipeline of rust-http-server: the head    *)
(* parser (req_parser.rs), the response builder (res_builder.rs), the MIME *)
(* matcher (utils.rs), the per-connection handler and the accept loop      *)
(* (server.rs) and the start and stop of the server (main.rs).             *)
(*                                                                         *)
(* Bytes are modelled as sequences of tokens.  A token is a lump of bytes  *)
(* that contains none of the characters the code splits on; the separators *)
(* the code looks for (space, colon, comma, semicolon, equal sign, slash,  *)
(* question mark, hash, line terminators) are tokens of their own.         *)
(***************************************************************************)
EXTENDS Integers, Sequences, FiniteSets, TLC

\* Number of request heads the peer sends on the connection.
MaxRequests == 2

\* Bound: request heads the peer sends on one connection when it keeps to the
\* heads of KeepAlive.
MaxKeepAlive == 3

\* The number of header lines of a head that is fed to the parser on its own.
MaxLines == 3

\* The number of connections that peers open to the server.
MaxConns == 2

\* The number of comma-separated items of an --auth-creds argument.
MaxCreds == 2

(***************************************************************************)
(* Token-level string helpers (ascii::AsciiStr methods).                   *)
(***************************************************************************)

\* Tokens that AsciiStr::trim / trim_start remove: ASCII whitespace.
Whitespace == {" ", "TAB", "CRLF", "LF"}

\* Tokens standing for bytes >= 0x80.
NonAscii == {"U+00E9"}

RECURSIVE TrimStart(_)
TrimStart(s) ==
    IF s = <<>> THEN s
    ELSE IF Head(s) \in Whitespace THEN TrimStart(Tail(s)) ELSE s

RECURSIVE TrimEnd(_)
TrimEnd(s) ==
    IF s = <<>> THEN s
    ELSE IF s[Len(s)] \in Whitespace THEN TrimEnd(SubSeq(s, 1, Len(s) - 1)) ELSE s

Trim(s) == TrimEnd(TrimStart(s))

\* Index of the first occurrence of token t in s, 0 when there is none.
Position(s, t) ==
    IF \E i \in 1..Len(s) : s[i] = t
    THEN CHOOSE i \in 1..Len(s) : s[i] = t /\ \A j \in 1..(i - 1) : s[j] # t
    ELSE 0

\* str::split: the pieces between the occurrences of sep, empty pieces kept.
RECURSIVE Split(_, _)
Split(s, sep) ==
    LET At(i) ==
            IF i = 0 THEN <<s>>
            ELSE <<SubSeq(s, 1, i - 1)>> \o Split(SubSeq(s, i + 1, Len(s)), sep)
    IN At(Position(s, sep))

\* to_ascii_lowercase on the tokens the model uses.
LowerTok(t) ==
    CASE t = "Host" -> "host"
      [] t = "HOST" -> "host"
      [] t = "Accept" -> "accept"
      [] t = "Accept-Encoding" -> "accept-encoding"
      [] t = "Authorization" -> "authorization"
      [] t = "Connection" -> "connection"
      [] t = "Content-Length" -> "content-length"
      [] t = "X-Custom" -> "x-custom"
      [] t = "Q" -> "q"
      [] OTHER -> t

to_ascii_lowercase(s) == [i \in 1..Len(s) |-> LowerTok(s[i])]

(***************************************************************************)
(* External tables: the mime crate, urlencoding, base64, number parsing.   *)
(***************************************************************************)

\* mime_guess::Mime::from_str on the tokens the model uses: type and subtype.
MimeTable ==
    [m \in {"text/html", "text/plain", "text/*", "application/json", "*/*",
            "text/markdown", "application/octet-stream",
            "text/html; charset=utf-8", "image/png", "image/svg+xml"} |->
        CASE m = "text/html" -> [type |-> "text", subtype |-> "html"]
          [] m = "text/plain" -> [type |-> "text", subtype |-> "plain"]
          [] m = "text/*" -> [type |-> "text", subtype |-> "*"]
          [] m = "application/json" -> [type |-> "application", subtype |-> "json"]
          [] m = "*/*" -> [type |-> "*", subtype |-> "*"]
          [] m = "text/markdown" -> [type |-> "text", subtype |-> "markdown"]
          [] m = "application/octet-stream" ->
                [type |-> "application", subtype |-> "octet-stream"]
          [] m = "text/html; charset=utf-8" -> [type |-> "text", subtype |-> "html"]
          [] m = "image/png" -> [type |-> "image", subtype |-> "png"]
          [] m = "image/svg+xml" -> [type |-> "image", subtype |-> "svg"]]

\* Mime::essence_str: the type and the subtype without the parameters.
essence_str(m) == IF m = "text/html; charset=utf-8" THEN "text/html" ELSE m

\* str::parse::<f32> on the tokens the model uses: the number, named by the
\* text that Display writes for it.
FloatTable ==
    [t \in {"0", "0.8", "0.9", "0.90", "1", "1.0"} |->
        CASE t = "0.90" -> "0.9"
          [] t = "1.0" -> "1"
          [] OTHER -> t]

\* str::parse::<u64> on the tokens the model uses.
NumberTable == [t \in {"0", "5"} |-> IF t = "0" THEN 0 ELSE 5]

\* urlencoding::decode per token; a token outside the table is left as it is,
\* BadEscapes decode to bytes that are not UTF-8.
BadEscapes == {"%FF"}
DecodeTok(t) ==
    CASE t = "%2E%2E" -> ".."
      [] t = "%2F" -> "/"
      [] OTHER -> t

\* BASE64_STANDARD.decode then String::from_utf8 then splitn(2, ":"):
\* the decoded text as its pieces around the first colon.
Base64Table ==
    [t \in {"Zm9vOmJhcg==", "YmFkOmJhZA==", "Zm9v"} |->
        CASE t = "Zm9vOmJhcg==" -> <<"foo", "bar">>
          [] t = "YmFkOmJhZA==" -> <<"bad", "bad">>
          [] t = "Zm9v" -> <<"foo">>]

(***************************************************************************)
(* utils.rs                                                                *)
(***************************************************************************)

\* A matcher that honours the wildcard in the type only.
are_mime_compatible_without_subtype_wildcard(accepted, actual) ==
    /\ (MimeTable[accepted].type = "*" \/ MimeTable[accepted].type = MimeTable[actual].type)
    /\ MimeTable[accepted].subtype = MimeTable[actual].subtype

are_mime_compatible(accepted, actual) ==
    /\ (MimeTable[accepted].type = "*" \/ MimeTable[accepted].type = MimeTable[actual].type)
    /\ (MimeTable[accepted].subtype = "*"
           \/ MimeTable[accepted].subtype = MimeTable[actual].subtype)

(***************************************************************************)
(* req_parser.rs: the line-fed head parser.                                *)
(***************************************************************************)

NoName == [some |-> FALSE, name |-> <<>>]
SomeName(n) == [some |-> TRUE, name |-> n]

\* RawReqHead::new
RawReqHead_new == [request_line |-> <<>>, headers |-> <<>>, last_header_name |-> NoName]

\* ReqHeadParser::new
ReqHeadParser_new == [state |-> "RequestLine", raw_req_head |-> RawReqHead_new]

\* A reset that goes back to the first state and keeps what was stored.
reset_state_only(p) == [p EXCEPT !.state = "RequestLine"]

\* ReqHeadParser::reset
reset(p) == [state |-> "RequestLine", raw_req_head |-> RawReqHead_new]

\* An is_complete that holds as soon as the request line is stored.
is_complete_after_request_line(p) == p.state # "RequestLine"

\* ReqHeadParser::is_complete
is_complete(p) == p.state = "Done"

\* An insert that replaces the value stored for the name.
PushHeader_replacing(headers, name, v) ==
    IF name \in DOMAIN headers
    THEN [headers EXCEPT ![name] = v]
    ELSE (name :> v) @@ headers

\* HashMap entry(name).or_default().push_str(v)
PushHeader(headers, name, v) ==
    IF name \in DOMAIN headers
    THEN [headers EXCEPT ![name] = @ \o v]
    ELSE (name :> v) @@ headers

ParserOk(p) == [err |-> "None", parser |-> p]
ParserErr(p, e) == [err |-> e, parser |-> p]

\* ReqHeadParser::process_bytes; state Done panics, the caller never gets there.
process_bytes(p, bytes) ==
    IF \E i \in 1..Len(bytes) : bytes[i] \in NonAscii
    THEN ParserErr(p, "Ascii")
    ELSE
    LET line == Trim(bytes)
        raw == p.raw_req_head
    IN
    CASE p.state = "RequestLine" ->
            IF line = <<>>
            THEN ParserErr(p, "FirstLine(EmptyLine)")
            ELSE ParserOk([state |-> "Headers",
                           raw_req_head |-> [raw EXCEPT !.request_line = line]])
      [] p.state = "Headers" ->
            IF line = <<>>
            THEN ParserOk([p EXCEPT !.state = "Done"])
            ELSE
            LET colon_idx == Position(line, ":") IN
            IF colon_idx # 0
            THEN LET name == SubSeq(line, 1, colon_idx - 1)
                     value == SubSeq(line, colon_idx + 1, Len(line))
                     lname == to_ascii_lowercase(Trim(name))
                 IN
                 IF name # <<>> /\ name[Len(name)] = " "
                 THEN ParserErr(p, "Header(SpaceBeforeColon)")
                 ELSE ParserOk([p EXCEPT
                        !.raw_req_head.headers = PushHeader(@, lname, TrimStart(value)),
                        !.raw_req_head.last_header_name = SomeName(lname)])
            ELSE IF raw.last_header_name.some
                 THEN ParserOk([p EXCEPT
                        !.raw_req_head.headers =
                            PushHeader(@, raw.last_header_name.name, line)])
                 ELSE ParserErr(p, "Header(NoColon)")
      [] OTHER -> ParserErr(p, "Panic")

(***************************************************************************)
(* req_parser.rs / req_parser/utils.rs: do_parse and the typed head.       *)
(***************************************************************************)

Ok(v) == [err |-> "None", val |-> v]
Err(e) == [err |-> e, val |-> <<>>]

parse_http_verb(verb) ==
    CASE verb = <<"GET">> -> Ok("Get")
      [] verb = <<"POST">> -> Ok("Post")
      [] verb = <<"PUT">> -> Ok("Put")
      [] verb = <<"PATCH">> -> Ok("Patch")
      [] verb = <<"DELETE">> -> Ok("Delete")
      [] OTHER -> Err("FirstLine(InvalidVerb)")

\* urlencoding::decode of the encoded path.
decode(s) == [i \in 1..Len(s) |-> DecodeTok(s[i])]

ReqTarget_All == [kind |-> "All", original |-> <<"*">>, decoded |-> <<>>, query |-> <<>>]

parse_http_target(target) ==
    IF target = <<"*">> THEN Ok(ReqTarget_All)
    ELSE
    LET Target(pieces) ==
            LET encoded_path == pieces[1]
                query == IF Len(pieces) = 1 THEN <<>> ELSE Split(pieces[2], "#")[1]
            IN
            IF \E i \in 1..Len(encoded_path) : encoded_path[i] \in BadEscapes
            THEN Err("FirstLine(InvalidTargetEncoding)")
            ELSE Ok([kind |-> "Path", original |-> target,
                     decoded |-> decode(encoded_path), query |-> query])
    IN Target(Split(target, "?"))

parse_first_line(line) ==
    LET Line(verb, target, version) ==
            IF verb.err # "None" THEN verb
            ELSE IF target.err # "None" THEN target
            ELSE Ok([verb |-> verb.val, target |-> target.val, version |-> version])
        Fields(fields) ==
            IF Len(fields) # 3 THEN Err("FirstLine(InvalidFieldCount)")
            ELSE Line(parse_http_verb(fields[1]), parse_http_target(fields[2]), fields[3])
    IN Fields(Split(line, " "))

\* SimpleHeaderValue and HeaderValue variants.
Plain(s) == [kind |-> "Plain", s |-> s]
Number(n) == [kind |-> "Number", n |-> n]
Mime(m) == [kind |-> "Mime", m |-> m]
Parsed(items) == [kind |-> "Parsed", items |-> items]
Credentials(u, p) == [kind |-> "Credentials", user |-> u, pass |-> p]

\* HeaderValueMemberName and HeaderValueMemberValue variants.
Quality == [kind |-> "Quality", name |-> <<>>]
OtherName(n) == [kind |-> "Other", name |-> n]
Float(f) == [kind |-> "Float", v |-> f]
OtherValue(v) == [kind |-> "Other", v |-> v]

\* The pieces written one after the other.
RECURSIVE concat(_)
concat(pieces) ==
    IF pieces = <<>> THEN <<>> ELSE Head(pieces) \o concat(Tail(pieces))

\* slice::join: the pieces with sep between them.
RECURSIVE join(_, _)
join(pieces, sep) ==
    IF pieces = <<>> THEN <<>>
    ELSE IF Len(pieces) = 1 THEN pieces[1]
    ELSE pieces[1] \o <<sep>> \o join(Tail(pieces), sep)

\* fmt::Display for HeaderValue.  The members of an item are written in the
\* order of their BTreeMap: q first, then the other names.
DisplayValue(v) ==
    LET Simple(a) ==
            CASE a.kind = "Number" -> <<ToString(a.n)>>
              [] a.kind = "Mime" -> <<essence_str(a.m)>>
              [] OTHER -> a.s
        Member(params, k) ==
            (IF k.kind = "Quality" THEN <<"q">> ELSE k.name) \o <<"=">>
                \o (IF params[k].kind = "Float" THEN <<params[k].v>> ELSE params[k].v)
        Members(params, order) ==
            join([i \in 1..Len(order) |-> Member(params, order[i])], ",")
        Item(item) ==
            Simple(item.atom)
                \o (IF DOMAIN item.params = {} THEN <<>> ELSE <<";">>)
                \o Members(item.params,
                           CHOOSE o \in [1..Cardinality(DOMAIN item.params) -> DOMAIN item.params] :
                               /\ \A i, j \in DOMAIN o : i # j => o[i] # o[j]
                               /\ \A i, j \in DOMAIN o :
                                     ~(i < j /\ o[j].kind = "Quality"))
    IN
    CASE v.kind = "Parsed" -> join([i \in 1..Len(v.items) |-> Item(v.items[i])], ",")
      [] v.kind = "Credentials" -> <<v.user, ":", v.pass>>
      [] OTHER -> Simple(v)

\* The main-value parsers handed to parse_header_value.
main_value_parser(which, v) ==
    IF which = "mime"
    THEN IF Len(v) = 1 /\ v[1] \in DOMAIN MimeTable
         THEN Ok(Mime(v[1]))
         ELSE Err("Header(InvalidMime)")
    ELSE Ok(Plain(v))

\* The `;`-separated attributes of one item, folded in order into a BTreeMap.
RECURSIVE ParseAttrs(_, _)
ParseAttrs(attrs, acc) ==
    IF attrs = <<>> THEN Ok(acc)
    ELSE
    LET Member(member_name, member_value) ==
            IF to_ascii_lowercase(member_name) = <<"q">>
            THEN IF Len(member_value) = 1 /\ member_value[1] \in DOMAIN FloatTable
                 THEN ParseAttrs(Tail(attrs),
                                 (Quality :> Float(FloatTable[member_value[1]])) @@ acc)
                 ELSE Err("Header(InvalidFloat)")
            ELSE ParseAttrs(Tail(attrs),
                            (OtherName(member_name) :> OtherValue(member_value)) @@ acc)
        Attr(split) ==
            IF Len(split) > 2 THEN Err("Header(InvalidMime)")
            ELSE Member(split[1], IF Len(split) = 1 THEN <<>> ELSE split[2])
    IN Attr(Split(Head(attrs), "="))

\* A parse of the attributes that keeps the first value given for a name.
parse_value_and_attr_keeping_first(value_str, which) ==
    LET Item(attributes, main) ==
            IF attributes.err # "None" THEN attributes
            ELSE IF main.err # "None" THEN main
            ELSE Ok([atom |-> main.val, params |-> attributes.val])
        Backwards(s) == [i \in 1..Len(s) |-> s[Len(s) + 1 - i]]
        WithAttributes(values_it) ==
            Item(ParseAttrs(Backwards(Tail(values_it)), <<>>),
                 main_value_parser(which, Head(values_it)))
    IN
    IF Position(value_str, ";") # 0
    THEN WithAttributes(Split(value_str, ";"))
    ELSE Item(Ok(<<>>), main_value_parser(which, value_str))

parse_value_and_attr(value_str, which) ==
    LET Item(attributes, main) ==
            IF attributes.err # "None" THEN attributes
            ELSE IF main.err # "None" THEN main
            ELSE Ok([atom |-> main.val, params |-> attributes.val])
        WithAttributes(values_it) ==
            Item(ParseAttrs(Tail(values_it), <<>>),
                 main_value_parser(which, Head(values_it)))
    IN
    IF Position(value_str, ";") # 0
    THEN WithAttributes(Split(value_str, ";"))
    ELSE Item(Ok(<<>>), main_value_parser(which, value_str))

RECURSIVE ParseItems(_, _, _)
ParseItems(values, which, acc) ==
    IF values = <<>> THEN Ok(acc)
    ELSE LET Push(v) ==
                 IF v.err # "None" THEN v
                 ELSE ParseItems(Tail(values), which, Append(acc, v.val))
         IN Push(parse_value_and_attr(Trim(Head(values)), which))

parse_header_value(value, which) ==
    LET Value(parsed_values) ==
            IF parsed_values.err # "None" THEN parsed_values
            ELSE IF Len(parsed_values.val) = 0 THEN Err("Header(NoComponent)")
            ELSE Ok(Parsed(parsed_values.val))
    IN Value(ParseItems(Split(value, ","), which, <<>>))

parse_authorization_header(value_str) ==
    IF Len(value_str) >= 3 /\ value_str[1] = "Basic" /\ value_str[2] = " "
    THEN LET Decoded(encoded_creds) ==
                 IF Len(encoded_creds) = 1 /\ encoded_creds[1] \in DOMAIN Base64Table
                 THEN LET split == Base64Table[encoded_creds[1]] IN
                      IF Len(split) = 2
                      THEN Ok(Credentials(split[1], split[2]))
                      ELSE Err("Header(InvalidBasicCredentials)")
                 ELSE Err("Header(InvalidBasicCredentials)")
         IN Decoded(Split(value_str, " ")[2])
    ELSE Err("Header(InvalidBasicCredentials)")

ParsedPlainNames ==
    {<<"accept-charset">>, <<"accept-encoding">>, <<"accept-language">>,
     <<"content-encoding">>, <<"content-language">>}

parse_header(name, value) ==
    CASE name = <<"accept">> -> parse_header_value(value, "mime")
      [] name \in ParsedPlainNames -> parse_header_value(value, "plain")
      [] name = <<"authorization">> -> parse_authorization_header(value)
      [] name = <<"content-length">> ->
            IF Len(value) = 1 /\ value[1] \in DOMAIN NumberTable
            THEN Ok(Number(NumberTable[value[1]]))
            ELSE Err("Header(NumberParsing)")
      [] OTHER -> Ok(Plain(value))

SupportedEncodings == {<<"gzip">>, <<"deflate">>, <<"zstd">>, <<"br">>}

\* A choice of the last supported atom of the list.
extract_supported_encoding_last(v) ==
    LET supported == {i \in 1..Len(v) :
                        v[i].atom.kind = "Plain" /\ v[i].atom.s \in SupportedEncodings}
    IN
    IF supported = {}
    THEN IF Len(v) # 0 THEN Err("NoSupportedEncoding") ELSE Err("Panic")
    ELSE Ok(v[CHOOSE i \in supported : \A j \in supported : i >= j].atom.s[1])

extract_supported_encoding(v) ==
    LET supported == {i \in 1..Len(v) :
                        v[i].atom.kind = "Plain" /\ v[i].atom.s \in SupportedEncodings}
    IN
    IF supported = {}
    THEN IF Len(v) # 0 THEN Err("NoSupportedEncoding") ELSE Err("Panic")
    ELSE Ok(v[CHOOSE i \in supported : \A j \in supported : i <= j].atom.s[1])

NoCreds == [some |-> FALSE, user |-> "", pass |-> ""]
SomeCreds(u, p) == [some |-> TRUE, user |-> u, pass |-> p]

\* ReqHeadParser::do_parse.  The headers are parsed in HashMap iteration
\* order, so when several headers are invalid any of their errors may be the
\* one returned: the operator gives the set of possible results.
do_parse(p) ==
    LET raw == p.raw_req_head
        Head_(first, headers, encoding) ==
            LET authentication_credentials ==
                    IF <<"authorization">> \in DOMAIN headers
                       /\ headers[<<"authorization">>].kind = "Credentials"
                    THEN SomeCreds(headers[<<"authorization">>].user,
                                   headers[<<"authorization">>].pass)
                    ELSE NoCreds
            IN
            IF encoding.err # "None" THEN {encoding}
            ELSE {Ok([verb |-> first.val.verb,
                      target |-> first.val.target,
                      version |-> first.val.version,
                      headers |-> headers,
                      authentication_credentials |-> authentication_credentials,
                      encoding |-> encoding.val])}
        Headers(first, typed, headers) ==
            LET failed == {n \in DOMAIN typed : typed[n].err # "None"} IN
            IF first.err # "None" THEN {first}
            ELSE IF failed # {} THEN {typed[n] : n \in failed}
            ELSE Head_(first, headers,
                       IF <<"accept-encoding">> \in DOMAIN headers
                          /\ headers[<<"accept-encoding">>].kind = "Parsed"
                       THEN extract_supported_encoding(headers[<<"accept-encoding">>].items)
                       ELSE Ok("None"))
        Typed(first, typed) ==
            Headers(first, typed, [n \in DOMAIN typed |-> typed[n].val])
    IN
    Typed(parse_first_line(raw.request_line),
          [n \in DOMAIN raw.headers |-> parse_header(n, raw.headers[n])])

(***************************************************************************)
(* http_req.rs                                                             *)
(***************************************************************************)

\* fmt::Display for ReqHeader: the canonical spelling of a known name, the
\* stored name for another one.
DisplayName(name) ==
    CASE name = <<"host">> -> <<"Host">>
      [] name = <<"accept">> -> <<"Accept">>
      [] name = <<"accept-encoding">> -> <<"Accept-Encoding">>
      [] name = <<"authorization">> -> <<"Authorization">>
      [] name = <<"connection">> -> <<"Connection">>
      [] name = <<"content-length">> -> <<"Content-Length">>
      [] OTHER -> name

\* ReqHead::first_line
first_line(head) ==
    <<CASE head.verb = "Get" -> "GET"
        [] head.verb = "Post" -> "POST"
        [] head.verb = "Put" -> "PUT"
        [] head.verb = "Patch" -> "PATCH"
        [] head.verb = "Delete" -> "DELETE",
      " ">> \o head.target.original \o <<" ">> \o head.version

\* fmt::Display for ReqHead, as the lines it writes: the first line and one
\* line for each header, one result for each order of the HashMap.
DisplayReqHead(head) ==
    LET Line(name) ==
            DisplayName(name) \o <<":", " ">> \o DisplayValue(head.headers[name])
                \o <<"CRLF">>
        Orders == {o \in [1..Cardinality(DOMAIN head.headers) -> DOMAIN head.headers] :
                      \A i, j \in DOMAIN o : i # j => o[i] # o[j]}
    IN
    {<<first_line(head) \o <<"CRLF">> >> \o [i \in 1..Len(o) |-> Line(o[i])] : o \in Orders}

\* ReqHead::should_close
should_close(head) ==
    /\ <<"connection">> \in DOMAIN head.headers
    /\ head.headers[<<"connection">>].kind = "Plain"
    /\ head.headers[<<"connection">>].s = <<"close">>

(***************************************************************************)
(* The filesystem the server runs on.  A path is a sequence of components, *)
(* a component is a sequence of tokens (several tokens when a string was   *)
(* pushed onto another without a separator in between).                    *)
(***************************************************************************)

Dir == [is_dir |-> TRUE, content |-> <<>>]
File(content) == [is_dir |-> FALSE, content |-> content]

Files ==
    (<<>> :> Dir)
    @@ (<< <<"srv">> >> :> Dir)
    @@ (<< <<"srv">>, <<"README.md">> >> :> File(<<"readme">>))
    @@ (<< <<"srv">>, <<"www">> >> :> Dir)
    @@ (<< <<"srv">>, <<"www">>, <<"lipsum.html">> >> :> File(<<"lipsum-1", "lipsum-2">>))
    @@ (<< <<"srv">>, <<"www">>, <<"big.bin">> >> :> File(<<"big-1", "big-2", "big-3">>))
    @@ (<< <<"srv">>, <<"www">>, <<"subdir">> >> :> Dir)
    @@ (<< <<"srv">>, <<"www">>, <<"subdir">>, <<"lipsum-alt.txt">> >> :> File(<<"alt">>))
    @@ (<< <<"srv">>, <<"www">>, <<"subdir">>, <<"-old">> >> :> Dir)
    @@ (<< <<"srv">>, <<"www">>, <<"subdir">>, <<"-old">>, <<"empty">> >> :> File(<<>>))
    @@ (<< <<"srv">>, <<"www">>, <<"private">> >> :> Dir)

\* The entries the server's user has no permission to open or to list.
Unreadable == { << <<"srv">>, <<"www">>, <<"private">> >> }

\* The document root as the string held in Settings (canonical, absolute).
DocumentRoot == <<"/", "srv", "/", "www">>

\* path::Path::components: the pieces between slashes; empty pieces and `.`
\* are dropped, `..` is kept.
Components(path) ==
    SelectSeq(Split(path, "/"), LAMBDA c : c # <<>> /\ c # <<".">>)

IsPrefix(a, b) == Len(a) <= Len(b) /\ SubSeq(b, 1, Len(a)) = a

\* path::Path::starts_with: whole components, compared without resolving.
starts_with(path, base) == IsPrefix(Components(base), Components(path))

IoOk(v) == [err |-> "None", val |-> v]
IoErr(kind) == [err |-> kind, val |-> <<>>]

\* Path resolution as the operating system does it, from the root.
RECURSIVE Walk(_, _)
Walk(cur, rest) ==
    IF rest = <<>> THEN IoOk(cur)
    ELSE IF Head(rest) = <<"..">>
    THEN Walk(IF cur = <<>> THEN cur ELSE SubSeq(cur, 1, Len(cur) - 1), Tail(rest))
    ELSE LET next == Append(cur, Head(rest)) IN
         IF next \notin DOMAIN Files THEN IoErr("NotFound")
         ELSE IF Len(rest) > 1 /\ ~Files[next].is_dir THEN IoErr("NotADirectory")
         ELSE Walk(next, Tail(rest))

Resolve(path) ==
    LET r == Walk(<<>>, Components(path)) IN
    IF r.err = "None" /\ path # <<>> /\ path[Len(path)] = "/" /\ ~Files[r.val].is_dir
    THEN IoErr("NotADirectory")
    ELSE r

\* fs::canonicalize
canonicalize(path) == Resolve(path)

\* path::Path::is_dir: false when the metadata cannot be read.
is_dir(path) == Resolve(path).err = "None" /\ Files[Resolve(path).val].is_dir

\* fs::read_dir: the children of a directory, in an order the system picks.
Children(dir) ==
    {p \in DOMAIN Files : Len(p) = Len(dir) + 1 /\ SubSeq(p, 1, Len(dir)) = dir}

\* String::cmp on the file names of the model: their rank in byte order.
NameRank(name) ==
    CASE name = "-old" -> 1
      [] name = ".." -> 2
      [] name = "README.md" -> 3
      [] name = "big.bin" -> 4
      [] name = "lipsum-alt.txt" -> 5
      [] name = "lipsum.html" -> 6
      [] name = "private" -> 7
      [] name = "srv" -> 8
      [] name = "subdir" -> 9
      [] name = "www" -> 10
      [] OTHER -> 11

\* mime_guess::MimeGuess::from_path(..).first_or_octet_stream()
GuessMime(path) ==
    LET comps == Components(path)
        last == IF comps = <<>> THEN <<>> ELSE comps[Len(comps)]
    IN
    CASE last = <<"lipsum.html">> -> "text/html"
      [] last = <<"lipsum-alt.txt">> -> "text/plain"
      [] last = <<"README.md">> -> "text/markdown"
      [] OTHER -> "application/octet-stream"

(***************************************************************************)
(* http_res.rs                                                             *)
(***************************************************************************)

get_reason_phrase(status_code) ==
    CASE status_code = 100 -> "Continue"
      [] status_code = 101 -> "Switching Protocols"
      [] status_code = 200 -> "OK"
      [] status_code = 201 -> "Created"
      [] status_code = 202 -> "Accepted"
      [] status_code = 203 -> "Non-Authoritative Information"
      [] status_code = 204 -> "No Content"
      [] status_code = 205 -> "Reset Content"
      [] status_code = 206 -> "Partial Content"
      [] status_code = 300 -> "Multiple Choices"
      [] status_code = 301 -> "Moved Permanently"
      [] status_code = 302 -> "Found"
      [] status_code = 303 -> "See Other"
      [] status_code = 304 -> "Not Modified"
      [] status_code = 305 -> "Use Proxy"
      [] status_code = 307 -> "Temporary Redirect"
      [] status_code = 400 -> "Bad Request"
      [] status_code = 401 -> "Unauthorized"
      [] status_code = 402 -> "Payment Required"
      [] status_code = 403 -> "Forbidden"
      [] status_code = 404 -> "Not Found"
      [] status_code = 405 -> "Method Not Allowed"
      [] status_code = 406 -> "Not Acceptable"
      [] status_code = 407 -> "Proxy Authentication Required"
      [] status_code = 408 -> "Request Timeout"
      [] status_code = 409 -> "Conflict"
      [] status_code = 410 -> "Gone"
      [] status_code = 411 -> "Length Required"
      [] status_code = 412 -> "Precondition Failed"
      [] status_code = 413 -> "Payload Too Large"
      [] status_code = 414 -> "URI Too Long"
      [] status_code = 415 -> "Unsupported Media Type"
      [] status_code = 416 -> "Range Not Satisfiable"
      [] status_code = 417 -> "Expectation Failed"
      [] status_code = 426 -> "Upgrade Required"
      [] status_code = 500 -> "Internal Server Error"
      [] status_code = 501 -> "Not Implemented"
      [] status_code = 502 -> "Bad Gateway"
      [] status_code = 503 -> "Service Unavailable"
      [] status_code = 504 -> "Gateway Timeout"
      [] status_code = 505 -> "HTTP Version Not Supported"
      [] OTHER -> "Unknown Error"

\* ResBody: a body is a sequence of chunks of bytes; lengths count chunks.
NoBody == [kind |-> "None", bytes |-> <<>>, len |-> 0]
Bytes(b) == [kind |-> "Bytes", bytes |-> b, len |-> Len(b)]
Stream(file, len) == [kind |-> "Stream", bytes |-> file, len |-> len]

\* A ResBody::len that answers 0 for a stream.
ResBody_len_of_bytes_only(body) == IF body.kind = "Bytes" THEN Len(body.bytes) ELSE 0

\* ResBody::len
ResBody_len(body) == IF body.kind = "Bytes" THEN Len(body.bytes) ELSE body.len

\* ResBody::is_empty
ResBody_is_empty(body) ==
    IF body.kind = "Bytes" THEN body.bytes = <<>> ELSE body.len = 0

NoRawHeaders == [some |-> FALSE, raw |-> <<>>]

\* HttpRes::new
HttpRes_new(version) ==
    [version |-> version, status_code |-> 200, headers |-> <<>>,
     body |-> NoBody, raw_headers |-> NoRawHeaders]

has_header(res, name) == name \in DOMAIN res.headers

\* HashMap::insert: the new value replaces the old one.
set_header(res, name, value) ==
    [res EXCEPT !.headers = (name :> value) @@ res.headers]

set_status(res, status_code) == [res EXCEPT !.status_code = status_code]

set_body(res, body) == [res EXCEPT !.body = body]

\* HttpRes::set_raw_headers
set_raw_headers(res, raw) == [res EXCEPT !.raw_headers = [some |-> TRUE, raw |-> raw]]

\* A head_bytes that leaves the raw header block out.
head_bytes_without_raw_headers(res) ==
    LET Line(name) == <<name, ":", " ">> \o DisplayValue(res.headers[name]) \o <<"CRLF">>
        Lines(order) == concat([i \in 1..Len(order) |-> Line(order[i])])
        Orders == {o \in [1..Cardinality(DOMAIN res.headers) -> DOMAIN res.headers] :
                      \A i, j \in DOMAIN o : i # j => o[i] # o[j]}
    IN
    {res.version
        \o <<" ", ToString(res.status_code), " ", get_reason_phrase(res.status_code), "CRLF">>
        \o Lines(o)
        \o <<"CRLF">> : o \in Orders}

\* HttpRes::head_bytes: the head as the tokens written to the socket, one
\* result for each order in which the HashMap may hand out the headers.
head_bytes(res) ==
    LET Line(name) == <<name, ":", " ">> \o DisplayValue(res.headers[name]) \o <<"CRLF">>
        Lines(order) == concat([i \in 1..Len(order) |-> Line(order[i])])
        Orders == {o \in [1..Cardinality(DOMAIN res.headers) -> DOMAIN res.headers] :
                      \A i, j \in DOMAIN o : i # j => o[i] # o[j]}
    IN
    {res.version
        \o <<" ", ToString(res.status_code), " ", get_reason_phrase(res.status_code), "CRLF">>
        \o Lines(o)
        \o (IF res.raw_headers.some THEN res.raw_headers.raw ELSE <<>>)
        \o <<"CRLF">> : o \in Orders}

(***************************************************************************)
(* res_builder.rs                                                          *)
(***************************************************************************)

\* Files longer than this are streamed (1024 * 1024 bytes, here in chunks).
StreamThreshold == 2

set_default_content_type(res) ==
    set_header(res, "Content-Type", Mime("text/html; charset=utf-8"))

\* The comparator handed to sort_by in list_directory.
EntryLess(a, b) ==
    CASE a.is_dir /\ ~b.is_dir -> TRUE
      [] ~a.is_dir /\ b.is_dir -> FALSE
      [] OTHER -> NameRank(a.name) < NameRank(b.name)

RECURSIVE SortEntries(_)
SortEntries(S) ==
    IF S = {} THEN <<>>
    ELSE LET m == CHOOSE x \in S : \A y \in S \ {x} : EntryLess(x, y) IN
         <<m>> \o SortEntries(S \ {m})

\* str::trim_end_matches("/")
RECURSIVE trim_end_matches_slash(_)
trim_end_matches_slash(s) ==
    IF s # <<>> /\ s[Len(s)] = "/"
    THEN trim_end_matches_slash(SubSeq(s, 1, Len(s) - 1))
    ELSE s

RECURSIVE ListingHtml(_, _)
ListingHtml(entries, rel_path) ==
    IF entries = <<>> THEN <<>>
    ELSE LET e == Head(entries)
             sep == IF rel_path = <<"/">> THEN <<>> ELSE <<"/">>
         IN
         <<"<li>">> \o trim_end_matches_slash(rel_path) \o sep \o <<e.name, ">", e.name>>
            \o (IF e.is_dir THEN <<"/">> ELSE <<>>)
            \o ListingHtml(Tail(entries), rel_path)

\* ResBuilder::list_directory
list_directory(res, dir_path, rel_path) ==
    LET dir == Resolve(dir_path)
        parent == IF rel_path = <<"/">> THEN {} ELSE {[name |-> "..", is_dir |-> TRUE]}
        read == {[name |-> p[Len(p)][1], is_dir |-> Files[p].is_dir] :
                    p \in Children(dir.val)}
        entries == SortEntries(parent \cup read)
    IN
    IF dir.err # "None" THEN dir
    ELSE IF ~Files[dir.val].is_dir THEN IoErr("NotADirectory")
    ELSE IF dir.val \in Unreadable THEN IoErr("PermissionDenied")
    ELSE IoOk(set_body(set_default_content_type(res),
                       Bytes(<<"Index of">> \o rel_path \o ListingHtml(entries, rel_path))))

\* ResBuilder::set_file_body; encoding is "None" or the token of an encoding.
set_file_body(res, file_path, encoding) ==
    LET mime_type == GuessMime(file_path)
        typed == set_header(res, "Content-Type", Mime(mime_type))
        file == Resolve(file_path)
        compress == encoding # "None" /\ MimeTable[mime_type].type = "text"
        content == IF compress
                   THEN <<encoding>> \o Files[file.val].content
                   ELSE Files[file.val].content
        encoded == IF compress
                   THEN set_header(typed, "Content-Encoding", Plain(<<encoding>>))
                   ELSE typed
    IN
    IF file.err # "None" THEN file
    ELSE IF file.val \in Unreadable THEN IoErr("PermissionDenied")
    ELSE IF Files[file.val].is_dir THEN IoErr("IsADirectory")
    ELSE IF Len(content) > StreamThreshold
         THEN IoOk(set_body(encoded, Stream(content, Len(content))))
         ELSE IoOk(set_body(encoded, Bytes(content)))

\* A do_build that sets Date and Server whether they are present or not.
do_build_overwriting(res) ==
    LET dated == set_header(res, "Date", Plain(<<"now">>))
        served == set_header(dated, "Server", Plain(<<"rust-http-server">>))
    IN
    IF served.body.kind # "None" /\ ~ResBody_is_empty(served.body)
    THEN set_header(served, "Content-Length", Number(ResBody_len(served.body)))
    ELSE served

\* ResBuilder::do_build
do_build(res) ==
    LET dated == IF ~has_header(res, "Date")
                 THEN set_header(res, "Date", Plain(<<"now">>))
                 ELSE res
        served == IF ~has_header(dated, "Server")
                  THEN set_header(dated, "Server", Plain(<<"rust-http-server">>))
                  ELSE dated
    IN
    IF served.body.kind # "None" /\ ~ResBody_is_empty(served.body)
    THEN set_header(served, "Content-Length", Number(ResBody_len(served.body)))
    ELSE served

\* The HTML page of an error response.
ErrorPage(status_code) ==
    <<"<title>", ToString(status_code), get_reason_phrase(status_code),
      "<h1>", ToString(status_code), get_reason_phrase(status_code)>>

\* A build_error that adds the challenge header in the with_body branch only.
build_error_challenge_with_body_only(res, status_code, with_body) ==
    LET s1 == set_status(res, status_code)
        s2 == IF status_code = 401 /\ with_body
              THEN set_header(s1, "WWW-Authenticate", Plain(<<"Basic realm=\"simple\"">>))
              ELSE s1
        s3 == IF with_body
              THEN set_body(set_default_content_type(s2), Bytes(ErrorPage(status_code)))
              ELSE set_header(s2, "Content-Length", Plain(<<"0">>))
    IN do_build(s3)

\* ResBuilder::build_error
build_error(res, status_code, with_body) ==
    LET s1 == set_status(res, status_code)
        s2 == IF status_code = 401
              THEN set_header(s1, "WWW-Authenticate", Plain(<<"Basic realm=\"simple\"">>))
              ELSE s1
        s3 == IF with_body
              THEN set_body(set_default_content_type(s2), Bytes(ErrorPage(status_code)))
              ELSE set_header(s2, "Content-Length", Plain(<<"0">>))
    IN do_build(s3)

(***************************************************************************)
(* server.rs: what the connection handler computes for one request.        *)
(***************************************************************************)

NoReq == [some |-> FALSE, head |-> <<>>]
SomeReq(head) == [some |-> TRUE, head |-> head]

\* The test at the top of send_response: the response is not acceptable to
\* the handler's current request.
Unacceptable(current_req, res) ==
    /\ current_req.some
    /\ <<"accept">> \in DOMAIN current_req.head.headers
    /\ has_header(res, "Content-Type")
    /\ res.headers["Content-Type"].kind = "Mime"
    /\ LET accepted == current_req.head.headers[<<"accept">>]
           actual == res.headers["Content-Type"].m
       IN
       CASE accepted.kind = "Mime" -> ~are_mime_compatible(accepted.m, actual)
         [] accepted.kind = "Parsed" ->
               \A i \in 1..Len(accepted.items) :
                   IF accepted.items[i].atom.kind = "Mime"
                   THEN ~are_mime_compatible(accepted.items[i].atom.m, actual)
                   ELSE TRUE
         [] OTHER -> FALSE

\* ClientHandler::send_response: the response handed in and the one that is
\* written to the socket.  serve_error(415, false) calls send_response again.
RECURSIVE send_response(_, _)
serve_error(current_req, status_code, with_body) ==
    send_response(current_req,
                  build_error(HttpRes_new(<<"HTTP/1.1">>), status_code, with_body))

send_response(current_req, res) ==
    IF Unacceptable(current_req, res)
    THEN [built |-> res, written |-> serve_error(current_req, 415, FALSE).written]
    ELSE [built |-> res, written |-> res]

\* A serve_io_error without the PermissionDenied arm.
serve_io_error_without_permission_arm(current_req, kind) ==
    CASE kind = "NotFound" -> serve_error(current_req, 404, TRUE)
      [] OTHER -> serve_error(current_req, 500, TRUE)

\* A serve_io_error that puts the kind of the error into the page.
serve_io_error_reporting_kind(current_req, kind) ==
    send_response(current_req,
                  set_body(build_error(HttpRes_new(<<"HTTP/1.1">>), 500, TRUE),
                           Bytes(<<"<h1>", kind>>)))

\* ClientHandler::serve_io_error
serve_io_error(current_req, kind) ==
    CASE kind = "NotFound" -> serve_error(current_req, 404, TRUE)
      [] kind = "PermissionDenied" -> serve_error(current_req, 403, TRUE)
      [] OTHER -> serve_error(current_req, 500, TRUE)

\* A serve_static_resource that lists a directory whatever allow_dir_listing is.
serve_static_resource_listing_unconditional(settings, current_req) ==
    LET req == current_req.head
        res_builder == HttpRes_new(req.version)
        path == req.target.decoded
        full_path == settings.document_root \o path
    IN
    IF req.target.kind = "All" THEN serve_error(current_req, 400, TRUE)
    ELSE IF ~starts_with(full_path, settings.document_root)
    THEN serve_error(current_req, 403, TRUE)
    ELSE IF is_dir(full_path)
    THEN LET listed == list_directory(res_builder, full_path, path) IN
         IF listed.err = "None"
         THEN send_response(current_req, do_build(listed.val))
         ELSE serve_io_error(current_req, listed.err)
    ELSE LET file == set_file_body(res_builder, full_path, "None") IN
         IF file.err = "None"
         THEN send_response(current_req, do_build(file.val))
         ELSE serve_io_error(current_req, file.err)

\* ClientHandler::serve_static_resource
serve_static_resource(settings, current_req) ==
    LET req == current_req.head
        res_builder == HttpRes_new(req.version)
        path == req.target.decoded
        full_path == settings.document_root \o path
    IN
    IF req.target.kind = "All" THEN serve_error(current_req, 400, TRUE)
    ELSE IF ~starts_with(full_path, settings.document_root)
    THEN serve_error(current_req, 403, TRUE)
    ELSE IF is_dir(full_path)
    THEN IF settings.allow_dir_listing
         THEN LET listed == list_directory(res_builder, full_path, path) IN
              IF listed.err = "None"
              THEN send_response(current_req, do_build(listed.val))
              ELSE serve_io_error(current_req, listed.err)
         ELSE serve_error(current_req, 403, TRUE)
    ELSE LET file == set_file_body(res_builder, full_path, "None") IN
         IF file.err = "None"
         THEN send_response(current_req, do_build(file.val))
         ELSE serve_io_error(current_req, file.err)

\* ClientHandler::serve_req: the responses sent for the current request.  The
\* match has an arm for Get only (the 405 arm is commented out), so nothing is
\* sent for another verb.
serve_req(settings, current_req) ==
    IF current_req.head.verb = "Get"
    THEN <<serve_static_resource(settings, current_req)>>
    ELSE <<>>

(***************************************************************************)
(* The request heads the peer may send, as the lines it writes.            *)
(***************************************************************************)

ReqLine(verb, target) == <<verb, " ">> \o target \o <<" ", "HTTP/1.1", "CRLF">>
Hdr(name, value) == <<name, ":", " ">> \o value \o <<"CRLF">>
EndOfHead == <<"CRLF">>

Lipsum == <<"/", "lipsum.html">>
HostLine == Hdr("Host", <<"example.org">>)
Json == <<"application/json">>

Catalogue ==
    { <<ReqLine("GET", Lipsum), HostLine, EndOfHead>>,
      <<ReqLine("GET", Lipsum), Hdr("Host", <<"example">>), <<".org", "CRLF">>, EndOfHead>>,
      <<ReqLine("GET", Lipsum), Hdr("Connection", <<"close">>), EndOfHead>>,
      <<ReqLine("GET", Lipsum), Hdr("Accept", Json), Hdr("Connection", <<"keep-alive">>),
        EndOfHead>>,
      <<ReqLine("GET", Lipsum), Hdr("Accept", Json), Hdr("Connection", <<"close">>),
        EndOfHead>>,
      <<ReqLine("GET", Lipsum),
        Hdr("Accept", <<"application/json", ";", "q", "=", "0.90", ";", "level", "=", "1",
                        ",", " ", "text/*", ";", "q", "=", "0">>),
        EndOfHead>>,
      <<ReqLine("GET", <<"/", "subdir", "/", "lipsum-alt.txt">>),
        Hdr("Accept", <<"text/html", ",", "application/json">>), EndOfHead>>,
      <<ReqLine("GET", Lipsum), Hdr("Authorization", <<"Basic", " ", "Zm9vOmJhcg==">>),
        EndOfHead>>,
      <<ReqLine("GET", Lipsum), Hdr("Authorization", <<"Basic", " ", "YmFkOmJhZA==">>),
        EndOfHead>>,
      <<ReqLine("GET", <<"/", "..", "/", "README.md">>), HostLine, EndOfHead>>,
      <<ReqLine("GET", <<"/", "..", "/">>), HostLine, EndOfHead>>,
      <<ReqLine("GET", <<"non-root-path">>), HostLine, EndOfHead>>,
      <<ReqLine("GET", <<"/", "non-existent">>), HostLine, EndOfHead>>,
      <<ReqLine("GET", <<"/", "subdir">>), HostLine, EndOfHead>>,
      <<ReqLine("GET", <<"/", "private">>), HostLine, EndOfHead>>,
      <<ReqLine("GET", <<"/", "lipsum.html", "/", "x">>), HostLine, EndOfHead>>,
      <<ReqLine("GET", <<"/", "big.bin">>), HostLine, EndOfHead>>,
      <<ReqLine("GET", <<"*">>), HostLine, EndOfHead>>,
      <<ReqLine("POST", Lipsum), HostLine, EndOfHead>>,
      <<ReqLine("DELETE", Lipsum), Hdr("Connection", <<"close">>), EndOfHead>>,
      <<ReqLine("foo", <<"/">>), Hdr("Accept", <<"text/html">>), EndOfHead>>,
      <<<<"GET", " ", "HTTP/1.1", "CRLF">>, HostLine, EndOfHead>>,
      <<ReqLine("GET", Lipsum), Hdr("Accept", <<"foo">>), EndOfHead>>,
      <<ReqLine("GET", Lipsum), Hdr("Accept-Encoding", <<"identity">>), EndOfHead>>,
      <<ReqLine("GET", Lipsum), Hdr("Accept-Encoding", <<"gzip">>), EndOfHead>>,
      <<ReqLine("GET", Lipsum), Hdr("Accept-Encoding", <<>>), EndOfHead>>,
      <<ReqLine("GET", Lipsum), <<"Host", " ", ":", " ", "example.org", "CRLF">>, EndOfHead>>,
      <<ReqLine("GET", Lipsum), <<"Host", " ", "example.org", "CRLF">>, EndOfHead>>,
      <<ReqLine("GET", Lipsum), Hdr("X-Custom", <<"U+00E9">>), EndOfHead>>,
      <<EndOfHead>> }

\* The heads of a longer exchange on one connection: a request with an Accept
\* header, a stray empty line, a request that asks for the connection to be
\* closed and a plain request.
KeepAlive ==
    { <<ReqLine("GET", Lipsum), Hdr("Accept", Json), Hdr("Connection", <<"keep-alive">>),
        EndOfHead>>,
      <<EndOfHead>>,
      <<ReqLine("GET", Lipsum), Hdr("Connection", <<"close">>), EndOfHead>>,
      <<ReqLine("GET", Lipsum), HostLine, EndOfHead>> }

\* The heads rs are within what the peer sends on one connection.
Budget(rs) ==
    \/ Len(rs) <= MaxRequests
    \/ Len(rs) <= MaxKeepAlive /\ \A i \in 1..Len(rs) : rs[i] \in KeepAlive

\* The credential lists the settings may carry (main.rs, --auth-creds).
NoAuth == [some |-> FALSE, creds |-> <<>>]
SomeAuth(creds) == [some |-> TRUE, creds |-> creds]

(***************************************************************************)
(* The connection handler as a state machine (ClientHandler::handle).      *)
(***************************************************************************)

VARIABLES
    settings,           \* Settings of the server
    wire,               \* lines the peer has written and the handler has not read
    peer_closed,        \* the peer has closed its side of the connection
    reqs,               \* the request heads the peer has sent so far
    pc,                 \* where the handler is in its loop
    req_head_parser,    \* local req_head_parser of handle
    req_parsing_error,  \* local req_parsing_error of handle
    current_req,        \* ClientHandler.current_req
    stream_shutdown,    \* stream.shutdown() has been called
    cur,                \* number of the request whose line was read last
    raised,             \* process_bytes failed on a line of the head being read
    hist,               \* one entry per head the handler has dealt with
    be                  \* a function or a part of the handler looked at on its own

\* The server around the handlers (main and Server::listen).
VARIABLES
    main_pc,            \* where main is: at its select!, or returned
    listener,           \* where Server::listen is in its loop
    sockets,            \* the state of each peer's connection
    tasks               \* the handler task spawned for each connection

hvars == <<settings, wire, peer_closed, reqs, pc, req_head_parser, req_parsing_error,
           current_req, stream_shutdown, cur, raised, hist>>
svars == <<main_pc, listener, sockets, tasks>>
vars == <<hvars, be, svars>>

BeIdle == [status |-> 0, with_body |-> FALSE, done |-> FALSE,
           res |-> HttpRes_new(<<"HTTP/1.1">>)]

Conns == 1..MaxConns

\* No handler task has been spawned for the connection.
NoTask == [pc |-> "Unspawned", settings |-> <<>>, body |-> FALSE, close |-> FALSE,
           write_failed |-> FALSE]

\* The server has accepted nothing: no peer has connected.
ServerIdle ==
    /\ main_pc = "Select"
    /\ listener = [pc |-> "Accept", tls |-> FALSE]
    /\ sockets = [c \in Conns |-> "Unconnected"]
    /\ tasks = [c \in Conns |-> NoTask]

HandlerInit ==
    /\ settings \in [document_root : {DocumentRoot},
                     allow_dir_listing : BOOLEAN,
                     authentication_credentials :
                        {NoAuth, SomeAuth(<< <<"foo", "bar">> >>)}]
    /\ wire = <<>>
    /\ peer_closed = FALSE
    /\ reqs = <<>>
    /\ pc = "ReadHead"
    /\ req_head_parser = reset(ReqHeadParser_new)
    /\ req_parsing_error = "None"
    /\ current_req = NoReq
    /\ stream_shutdown = FALSE
    /\ cur = 0
    /\ raised = FALSE
    /\ hist = <<>>

Init == HandlerInit /\ be = BeIdle /\ ServerIdle

\* The peer writes the lines of one more request head, once the handler has
\* taken the lines written before (the handler reads the lines in the order
\* in which they were written, whenever they were written).
PeerSend ==
    /\ ~peer_closed
    /\ pc # "Closed"
    /\ wire = <<>>
    /\ \E r \in Catalogue :
        /\ Budget(Append(reqs, r))
        /\ reqs' = Append(reqs, r)
        /\ wire' = wire \o [i \in 1..Len(r) |-> [req |-> Len(reqs) + 1, bytes |-> r[i]]]
    /\ UNCHANGED <<settings, peer_closed, pc, req_head_parser, req_parsing_error,
                   current_req, stream_shutdown, cur, raised, hist, be, svars>>

\* The peer closes its side.
PeerClose ==
    /\ ~peer_closed
    /\ peer_closed' = TRUE
    /\ UNCHANGED <<settings, wire, reqs, pc, req_head_parser, req_parsing_error,
                   current_req, stream_shutdown, cur, raised, hist, be, svars>>

\* handle, lines 150-173: one line is read and the parser accepts it.
ReadLine ==
    /\ pc = "ReadHead"
    /\ wire # <<>>
    /\ LET r == process_bytes(req_head_parser, Head(wire).bytes) IN
        /\ r.err = "None"
        /\ req_head_parser' = r.parser
        /\ pc' = IF is_complete(r.parser) THEN "AfterHead" ELSE "ReadHead"
    /\ cur' = Head(wire).req
    /\ wire' = Tail(wire)
    /\ UNCHANGED <<settings, peer_closed, reqs, req_parsing_error, current_req,
                   stream_shutdown, raised, hist, be, svars>>

\* handle, lines 169-172: one line is read and the parser rejects it.
ReadLineFails ==
    /\ pc = "ReadHead"
    /\ wire # <<>>
    /\ LET r == process_bytes(req_head_parser, Head(wire).bytes) IN
        /\ r.err # "None"
        /\ req_head_parser' = r.parser
        /\ req_parsing_error' = r.err
    /\ pc' = "AfterHead"
    /\ raised' = TRUE
    /\ cur' = Head(wire).req
    /\ wire' = Tail(wire)
    /\ UNCHANGED <<settings, peer_closed, reqs, current_req, stream_shutdown, hist, be, svars>>

\* A ReadEof that answers the head it was reading before it ends.
ReadEof_answering ==
    /\ pc = "ReadHead"
    /\ wire = <<>>
    /\ peer_closed
    /\ pc' = "Closed"
    /\ hist' = IF req_head_parser.state = "RequestLine" THEN hist
               ELSE Append(hist, [req |-> cur, stage |-> "process_error", err |-> "Eof",
                                  raised |-> raised, current_req |-> current_req,
                                  sent |-> <<serve_error(current_req, 400, TRUE)>>,
                                  closed |-> TRUE])
    /\ UNCHANGED <<settings, wire, peer_closed, reqs, req_head_parser, req_parsing_error,
                   current_req, stream_shutdown, cur, raised, be, svars>>

\* handle, lines 164-167 and 174-176: a zero-length read ends the handler.
ReadEof ==
    /\ pc = "ReadHead"
    /\ wire = <<>>
    /\ peer_closed
    /\ pc' = "Closed"
    /\ UNCHANGED <<settings, wire, peer_closed, reqs, req_head_parser, req_parsing_error,
                   current_req, stream_shutdown, cur, raised, hist, be, svars>>

Entry(stage, err, req, sent, closed) ==
    [req |-> cur, stage |-> stage, err |-> err, raised |-> raised,
     current_req |-> req, sent |-> sent, closed |-> closed]

\* handle, lines 177-180: req_parsing_error holds an error.
HandleReqParsingError ==
    /\ pc = "AfterHead"
    /\ req_parsing_error # "None"
    /\ hist' = Append(hist, Entry("process_error", req_parsing_error, current_req,
                                  <<serve_error(current_req, 400, TRUE)>>, FALSE))
    /\ pc' = "ReadHead"
    /\ req_head_parser' = reset(req_head_parser)
    /\ raised' = FALSE
    /\ UNCHANGED <<settings, wire, peer_closed, reqs, req_parsing_error, current_req,
                   stream_shutdown, cur, be, svars>>

\* handle, lines 184-197: do_parse succeeds and the request is served.
ServeReq ==
    /\ pc = "AfterHead"
    /\ req_parsing_error = "None"
    /\ \E r \in do_parse(req_head_parser) :
        /\ r.err = "None"
        /\ current_req' = SomeReq(r.val)
        /\ hist' = Append(hist, Entry("served", "None", SomeReq(r.val),
                                      serve_req(settings, SomeReq(r.val)),
                                      should_close(r.val)))
        /\ stream_shutdown' = should_close(r.val)
        /\ pc' = IF should_close(r.val) THEN "Closed" ELSE "ReadHead"
    /\ req_head_parser' = reset(req_head_parser)
    /\ raised' = FALSE
    /\ UNCHANGED <<settings, wire, peer_closed, reqs, req_parsing_error, cur, be, svars>>

\* handle, line 198: do_parse fails.
ParseFails ==
    /\ pc = "AfterHead"
    /\ req_parsing_error = "None"
    /\ \E r \in do_parse(req_head_parser) :
        /\ r.err # "None"
        /\ hist' = Append(hist, Entry("parse_error", r.err, current_req,
                                      <<serve_error(current_req, 400, TRUE)>>, FALSE))
    /\ pc' = "ReadHead"
    /\ req_head_parser' = reset(req_head_parser)
    /\ raised' = FALSE
    /\ UNCHANGED <<settings, wire, peer_closed, reqs, req_parsing_error, current_req,
                   stream_shutdown, cur, be, svars>>

Next ==
    \/ PeerSend
    \/ PeerClose
    \/ ReadLine
    \/ ReadLineFails
    \/ ReadEof
    \/ HandleReqParsingError
    \/ ServeReq
    \/ ParseFails

Spec == Init /\ [][Next]_vars

(***************************************************************************)
(* build_error on its own: every status code, with and without a body.     *)
(***************************************************************************)

\* The codes of the reason-phrase table and three codes outside of it.
StatusCodes ==
    {100, 101, 200, 201, 202, 203, 204, 205, 206, 300, 301, 302, 303, 304, 305, 307,
     400, 401, 402, 403, 404, 405, 406, 407, 408, 409, 410, 411, 412, 413, 414, 415,
     416, 417, 426, 500, 501, 502, 503, 504, 505, 299, 418, 599}

HandlerIdle ==
    /\ settings = [document_root |-> DocumentRoot, allow_dir_listing |-> FALSE,
                   authentication_credentials |-> NoAuth]
    /\ wire = <<>>
    /\ peer_closed = FALSE
    /\ reqs = <<>>
    /\ pc = "Closed"
    /\ req_head_parser = ReqHeadParser_new
    /\ req_parsing_error = "None"
    /\ current_req = NoReq
    /\ stream_shutdown = FALSE
    /\ cur = 0
    /\ raised = FALSE
    /\ hist = <<>>

InitBuildError ==
    /\ HandlerIdle
    /\ ServerIdle
    /\ be \in {[status |-> s, with_body |-> b, done |-> FALSE,
                res |-> HttpRes_new(<<"HTTP/1.1">>)] : s \in StatusCodes, b \in BOOLEAN}

\* serve_error, lines 221-222: a fresh builder builds the error response.
BuildError ==
    /\ ~be.done
    /\ be' = [be EXCEPT !.done = TRUE,
                        !.res = build_error(be.res, be.status, be.with_body)]
    /\ UNCHANGED <<hvars, svars>>

NextBuildError == BuildError

SpecBuildError == InitBuildError /\ [][NextBuildError]_vars

(***************************************************************************)
(* The read loop on one head: header lines, continuation lines and lines   *)
(* the parser rejects.                                                     *)
(***************************************************************************)

ParserLines ==
    { Hdr("Host", <<"example">>),
      <<".org", "CRLF">>,
      <<"HOST", ":", " ", " ", "x", " ", "CRLF">>,
      Hdr("Accept", <<"text/html">>),
      <<" ", "folded", " ", "CRLF">>,
      <<"Host", " ", ":", " ", "x", "CRLF">>,
      <<"X-Custom", ":", " ", "U+00E9", "CRLF">>,
      <<" ", "TAB", "CRLF">> }

\* First lines other than a plain request line: empty lines, a line of
\* whitespace, a line with a byte that is not ASCII, a request line between
\* whitespace.
OddFirstLines ==
    { <<"CRLF">>, <<"LF">>, <<" ", "TAB", "CRLF">>, <<"U+00E9", "CRLF">>,
      <<" ", "GET", " ", "/", " ", "HTTP/1.1", " ", "LF">> }

ParserHeads ==
    {<<ReqLine("GET", Lipsum)>> \o ls \o <<EndOfHead>> :
        ls \in UNION {[1..n -> ParserLines] : n \in 0..MaxLines}}
    \cup {<<l, EndOfHead>> : l \in OddFirstLines}

InitParser ==
    /\ settings = [document_root |-> DocumentRoot, allow_dir_listing |-> FALSE,
                   authentication_credentials |-> NoAuth]
    /\ \E r \in ParserHeads :
          /\ reqs = <<r>>
          /\ wire = [i \in 1..Len(r) |-> [req |-> 1, bytes |-> r[i]]]
    /\ peer_closed = FALSE
    /\ pc = "ReadHead"
    /\ req_head_parser = reset(ReqHeadParser_new)
    /\ req_parsing_error = "None"
    /\ current_req = NoReq
    /\ stream_shutdown = FALSE
    /\ cur = 0
    /\ raised = FALSE
    /\ hist = <<>>
    /\ be = BeIdle
    /\ ServerIdle

NextParser == ReadLine \/ ReadLineFails

SpecParser == InitParser /\ [][NextParser]_vars

(***************************************************************************)
(* head_bytes on its own, on the responses the builder can make.           *)
(***************************************************************************)

\* The header block a CGI script prints, as run_php_script keeps it.
CgiHeaders ==
    {<<"X-Powered-By", ":", " ", "PHP", "CRLF">>,
     <<"X-Powered-By", ":", " ", "PHP", "CRLF",
       "Content-type", ":", " ", "text/html", "CRLF">>}

\* Error responses, file responses and CGI responses.
Built ==
    LET fresh == HttpRes_new(<<"HTTP/1.1">>) IN
    {build_error(fresh, s, b) : s \in StatusCodes, b \in BOOLEAN}
    \cup {do_build(set_file_body(fresh, DocumentRoot \o <<"/", f>>, enc).val) :
            f \in {"lipsum.html", "big.bin"}, enc \in {"None", "gzip"}}
    \cup {do_build(set_body(set_raw_headers(fresh, raw), Bytes(<<"output">>))) :
            raw \in CgiHeaders}

InitHeadBytes ==
    /\ HandlerIdle
    /\ ServerIdle
    /\ be \in {[res |-> r, done |-> FALSE, bytes |-> <<>>] : r \in Built}

\* send_response, line 346: the head of the response is serialized.
HeadBytes ==
    /\ ~be.done
    /\ \E bytes \in head_bytes(be.res) :
          be' = [be EXCEPT !.done = TRUE, !.bytes = bytes]
    /\ UNCHANGED <<hvars, svars>>

NextHeadBytes == HeadBytes

SpecHeadBytes == InitHeadBytes /\ [][NextHeadBytes]_vars

(***************************************************************************)
(* are_mime_compatible on its own, on every pair of media types.           *)
(***************************************************************************)

InitMime ==
    /\ HandlerIdle
    /\ ServerIdle
    /\ be \in {[accepted |-> a, actual |-> b, done |-> FALSE, compatible |-> FALSE] :
                a \in DOMAIN MimeTable, b \in DOMAIN MimeTable}

\* send_response, lines 311 and 319: the matcher is applied to the pair.
MimeCompatible ==
    /\ ~be.done
    /\ be' = [be EXCEPT !.done = TRUE,
                        !.compatible = are_mime_compatible(be.accepted, be.actual)]
    /\ UNCHANGED <<hvars, svars>>

NextMime == MimeCompatible

SpecMime == InitMime /\ [][NextMime]_vars

(***************************************************************************)
(* The server: main, the accept loop of Server::listen and one handler    *)
(* task per connection.  A step of a task runs from one await to the next; *)
(* the result of each socket operation is open.                            *)
(***************************************************************************)

\* The results of the read of a head: an error of the socket, the end of the
\* stream, or a head, of which a handler needs to know whether a response is
\* sent for it (serve_req sends none for a verb other than GET), whether the
\* response has a body and whether should_close holds.
ReadResults ==
    {r \in [kind : {"Err", "Eof", "Head"}, respond : BOOLEAN, body : BOOLEAN,
            close : BOOLEAN] :
        /\ r.body => r.respond
        /\ r.kind # "Head" => ~r.respond /\ ~r.close}

InitListen ==
    /\ HandlerIdle
    /\ be = BeIdle
    /\ main_pc = "Select"
    /\ listener \in [pc : {"Accept"}, tls : BOOLEAN]
    /\ sockets = [c \in Conns |-> "Unconnected"]
    /\ tasks = [c \in Conns |-> NoTask]

\* main, lines 154-157 with #[tokio::main]: the listen future is polled, and
\* the runtime that runs the spawned tasks lives, while main is at its select!.
alive_after_return(m) == TRUE

alive(m) == m = "Select"

\* tokio::spawn of listen, lines 89-93 and 101-105: a handler with a clone of
\* the settings, at the top of handle.
spawn(s) == [pc |-> "ReadHead", settings |-> s, body |-> FALSE, close |-> FALSE,
             write_failed |-> FALSE]

\* main, lines 150-155: the quit signal is sent and the select! takes it; main
\* returns, which drops the listen future and shuts the runtime down.
Quit ==
    /\ main_pc = "Select"
    /\ main_pc' = "Returned"
    /\ UNCHANGED <<hvars, be, listener, sockets, tasks>>

\* A peer connects: the connection waits in the backlog of the listener.
PeerConnect(c) ==
    /\ sockets[c] = "Unconnected"
    /\ sockets' = [sockets EXCEPT ![c] = "Backlog"]
    /\ UNCHANGED <<hvars, be, main_pc, listener, tasks>>

\* An accept loop that runs the handler of a connection to its end before it
\* accepts the next connection.
Accept_awaiting_handler(c) ==
    /\ alive(main_pc)
    /\ listener.pc = "Accept"
    /\ sockets[c] = "Backlog"
    /\ \A d \in Conns : tasks[d].pc \in {"Unspawned", "Done"}
    /\ IF listener.tls
       THEN /\ listener' = [listener EXCEPT !.pc = "Handshake"]
            /\ sockets' = [sockets EXCEPT ![c] = "Handshake"]
            /\ UNCHANGED tasks
       ELSE /\ sockets' = [sockets EXCEPT ![c] = "Accepted"]
            /\ tasks' = [tasks EXCEPT ![c] = spawn(settings)]
            /\ UNCHANGED listener
    /\ UNCHANGED <<hvars, be, main_pc>>

\* listen, lines 82-106: accept returns a connection; without TLS a handler
\* is spawned for it and the loop goes back to accept.
Accept(c) ==
    /\ alive(main_pc)
    /\ listener.pc = "Accept"
    /\ sockets[c] = "Backlog"
    /\ IF listener.tls
       THEN /\ listener' = [listener EXCEPT !.pc = "Handshake"]
            /\ sockets' = [sockets EXCEPT ![c] = "Handshake"]
            /\ UNCHANGED tasks
       ELSE /\ sockets' = [sockets EXCEPT ![c] = "Accepted"]
            /\ tasks' = [tasks EXCEPT ![c] = spawn(settings)]
            /\ UNCHANGED listener
    /\ UNCHANGED <<hvars, be, main_pc>>

\* listen, line 108: accept returns an error for a connection of the backlog;
\* the error is logged and the loop goes on.
AcceptFails(c) ==
    /\ alive(main_pc)
    /\ listener.pc = "Accept"
    /\ sockets[c] = "Backlog"
    /\ sockets' = [sockets EXCEPT ![c] = "Dropped"]
    /\ UNCHANGED <<hvars, be, main_pc, listener, tasks>>

\* listen, lines 87-99: the TLS handshake ends; a handler is spawned when it
\* succeeded, the connection is dropped when it failed.
Handshake(c) ==
    /\ alive(main_pc)
    /\ listener.pc = "Handshake"
    /\ sockets[c] = "Handshake"
    /\ listener' = [listener EXCEPT !.pc = "Accept"]
    /\ \E ok \in BOOLEAN :
          IF ok
          THEN /\ sockets' = [sockets EXCEPT ![c] = "Accepted"]
               /\ tasks' = [tasks EXCEPT ![c] = spawn(settings)]
          ELSE /\ sockets' = [sockets EXCEPT ![c] = "Dropped"]
               /\ UNCHANGED tasks
    /\ UNCHANGED <<hvars, be, main_pc>>

\* handle, lines 143-199, from the read of a head to the first await that
\* follows: a read error or the end of the stream ends the handler; a head
\* (well-formed or not) leads to send_response, or to the test of
\* should_close when no response is sent for it.
handle_read(task, result) ==
    IF result.kind \in {"Err", "Eof"}
    THEN [task EXCEPT !.pc = "Done"]
    ELSE [task EXCEPT !.pc = IF result.respond THEN "WriteHead"
                              ELSE IF result.close THEN "Shutdown" ELSE "ReadHead",
                      !.body = result.body,
                      !.close = result.close,
                      !.write_failed = FALSE]

\* A read whose error takes the whole process down.
Read_error_aborting(c) ==
    /\ alive(main_pc)
    /\ tasks[c].pc = "ReadHead"
    /\ \E result \in ReadResults :
          IF result.kind = "Err"
          THEN /\ tasks' = [d \in Conns |-> [tasks[d] EXCEPT !.pc = "Done"]]
               /\ main_pc' = "Returned"
          ELSE /\ tasks' = [tasks EXCEPT ![c] = handle_read(tasks[c], result)]
               /\ UNCHANGED main_pc
    /\ UNCHANGED <<hvars, be, listener, sockets>>

\* handle, lines 150-199: the handler of connection c reads a head.
Read(c) ==
    /\ alive(main_pc)
    /\ tasks[c].pc = "ReadHead"
    /\ \E result \in ReadResults :
          tasks' = [tasks EXCEPT ![c] = handle_read(tasks[c], result)]
    /\ UNCHANGED <<hvars, be, main_pc, listener, sockets>>

\* send_response, lines 346-373, and the return to handle, lines 190-196:
\* the await the task is at ends with ok or with an error, which is logged;
\* the task goes on to the next await.
send_response_step(task, ok) ==
    LET after == IF task.close THEN "Shutdown" ELSE "ReadHead" IN
    CASE task.pc = "WriteHead" ->
            [task EXCEPT !.pc = "FlushHead", !.write_failed = ~ok]
      [] task.pc = "FlushHead" ->
            [task EXCEPT !.pc = IF task.body THEN "WriteBody" ELSE "FlushBody"]
      [] task.pc = "WriteBody" ->
            [task EXCEPT !.pc = "FlushBody", !.write_failed = @ \/ ~ok]
      [] task.pc = "FlushBody" ->
            [task EXCEPT !.pc = after]

\* send_response: one write or flush of the handler of connection c.
SendResponse(c) ==
    /\ alive(main_pc)
    /\ tasks[c].pc \in {"WriteHead", "FlushHead", "WriteBody", "FlushBody"}
    /\ \E ok \in BOOLEAN :
          tasks' = [tasks EXCEPT ![c] = send_response_step(tasks[c], ok)]
    /\ UNCHANGED <<hvars, be, main_pc, listener, sockets>>

\* handle, lines 190-196: the stream is shut down, with or without an error,
\* and the handler ends.
Shutdown(c) ==
    /\ alive(main_pc)
    /\ tasks[c].pc = "Shutdown"
    /\ tasks' = [tasks EXCEPT ![c].pc = "Done"]
    /\ UNCHANGED <<hvars, be, main_pc, listener, sockets>>

NextListen ==
    \/ Quit
    \/ \E c \in Conns :
          \/ PeerConnect(c)
          \/ Accept(c)
          \/ AcceptFails(c)
          \/ Handshake(c)
          \/ Read(c)
          \/ SendResponse(c)
          \/ Shutdown(c)

SpecListen == InitListen /\ [][NextListen]_vars

(***************************************************************************)
(* main.rs: the --auth-creds argument.                                     *)
(***************************************************************************)

NoArgument == [some |-> FALSE, val |-> <<>>]
SomeArgument(v) == [some |-> TRUE, val |-> v]

\* str::splitn(2, ':'): the piece before the first colon and the rest, or the
\* whole text when it has no colon.
splitn2(s) ==
    LET At(i) == IF i = 0 THEN <<s>>
                 ELSE <<SubSeq(s, 1, i - 1), SubSeq(s, i + 1, Len(s))>>
    IN At(Position(s, ":"))

\* A parse that leaves the malformed items out.
parse_authentication_credentials_skipping_invalid(argument) ==
    IF ~argument.some THEN Ok(NoAuth)
    ELSE
    LET pairs == [i \in DOMAIN Split(argument.val, ",") |->
                    splitn2(Split(argument.val, ",")[i])]
        Valid(pair) == Len(pair) = 2 /\ pair[1] # <<>> /\ pair[2] # <<>>
        good == SelectSeq(pairs, Valid)
    IN
    IF good = <<>> THEN Err("No valid credentials provided")
    ELSE Ok(SomeAuth(good))

\* parse_authentication_credentials
parse_authentication_credentials(argument) ==
    IF ~argument.some THEN Ok(NoAuth)
    ELSE
    LET pairs == [i \in DOMAIN Split(argument.val, ",") |->
                    splitn2(Split(argument.val, ",")[i])]
        Valid(pair) == Len(pair) = 2 /\ pair[1] # <<>> /\ pair[2] # <<>>
    IN
    IF \E i \in DOMAIN pairs : ~Valid(pairs[i]) THEN Err("Invalid credential tuple")
    ELSE IF pairs = <<>> THEN Err("No valid credentials provided")
    ELSE Ok(SomeAuth(pairs))

\* The items of an argument: two well-formed ones, one whose password holds
\* a colon, and the malformed ones of the unit test.
CredItems ==
    { <<"foo", ":", "bar">>, <<"bar", ":", "foo">>, <<"foo", ":", "b", ":", "c">>,
      <<"username">>, <<"username", ":">>, <<":", "password">>, <<>> }

\* No argument, or up to MaxCreds items joined by commas.
CredArguments ==
    {NoArgument} \cup
    {SomeArgument(join(its, ",")) :
        its \in UNION {[1..n -> CredItems] : n \in 1..MaxCreds}}

InitCreds ==
    /\ HandlerIdle
    /\ ServerIdle
    /\ be \in {[argument |-> a, done |-> FALSE, result |-> Ok(NoAuth)] :
                a \in CredArguments}

\* parse_args, lines 109-111: the argument is parsed.
ParseCreds ==
    /\ ~be.done
    /\ be' = [be EXCEPT !.done = TRUE,
                        !.result = parse_authentication_credentials(be.argument)]
    /\ UNCHANGED <<hvars, svars>>

NextCreds == ParseCreds

SpecCreds == InitCreds /\ [][NextCreds]_vars

(***************************************************************************)
(* The request target, a list-valued header and the choice of the          *)
(* encoding, each parsed on its own.                                       *)
(***************************************************************************)

MaxTarget == 4
MaxItems == 2

TargetTokens == {"/a", "?", "b", "#", "%2F"}

\* `*` and every target of at most MaxTarget tokens.
Targets == {<<"*">>} \cup UNION {[1..n -> TargetTokens] : n \in 1..MaxTarget}

\* Items of a list-valued header: with and without parameters, a parameter
\* given twice, one with two `=`, one without `=`, a q that is no number,
\* whitespace around the item and before the `;`, an empty item.
ValueItems ==
    { <<"gzip">>, <<"GZIP">>, <<>>,
      <<"br", ";", "q", "=", "0.8">>,
      <<"identity", ";", "Q", "=", "1">>,
      <<" ", "zstd", " ">>,
      <<"gzip", " ", ";", "q", "=", "1">>,
      <<"deflate", ";", "a", "=", "b", ";", "a", "=", "c">>,
      <<"identity", ";", "q", "=", "0.8", ";", "q", "=", "1">>,
      <<"gzip", ";", "a", "=", "b", "=", "c">>,
      <<"x-gzip", ";", "a">>,
      <<"identity", ";", "q", "=", "high">> }

\* Up to MaxItems items joined by commas.
HeaderValues ==
    {join(its, ",") : its \in UNION {[1..n -> ValueItems] : n \in 1..MaxItems}}

\* A parser that has been fed `GET / HTTP/1.1` and `Accept-Encoding: value`.
WithAcceptEncoding(value) ==
    [state |-> "Done",
     raw_req_head |->
        [request_line |-> <<"GET", " ", "/", " ", "HTTP/1.1">>,
         headers |-> PushHeader(<<>>, <<"accept-encoding">>, value),
         last_header_name |-> SomeName(<<"accept-encoding">>)]]

InitParse ==
    /\ HandlerIdle
    /\ ServerIdle
    /\ be \in {[which |-> "target", input |-> t, done |-> FALSE, result |-> <<>>] :
                t \in Targets}
              \cup {[which |-> w, input |-> v, done |-> FALSE, result |-> <<>>] :
                      w \in {"value", "encoding"}, v \in HeaderValues}

\* parse_first_line, line 232: the target field is parsed.
ParseTarget ==
    /\ ~be.done
    /\ be.which = "target"
    /\ be' = [be EXCEPT !.done = TRUE, !.result = parse_http_target(be.input)]
    /\ UNCHANGED <<hvars, svars>>

\* parse_header_value_plain: the value of a list-valued header is parsed.
ParseValue ==
    /\ ~be.done
    /\ be.which = "value"
    /\ be' = [be EXCEPT !.done = TRUE, !.result = parse_header_value(be.input, "plain")]
    /\ UNCHANGED <<hvars, svars>>

\* do_parse on a head whose only header is Accept-Encoding.
ParseEncoding ==
    /\ ~be.done
    /\ be.which = "encoding"
    /\ be' = [be EXCEPT !.done = TRUE, !.result = do_parse(WithAcceptEncoding(be.input))]
    /\ UNCHANGED <<hvars, svars>>

NextParse == ParseTarget \/ ParseValue \/ ParseEncoding

SpecParse == InitParse /\ [][NextParse]_vars

(***************************************************************************)
(* res_builder.rs: the script runner, applied to what the interpreter      *)
(* leaves behind.                                                          *)
(***************************************************************************)

MaxOutput == 4

\* process::Output as the runner looks at it: whether the interpreter could
\* be run at all, its exit status, and its stdout with whether it is UTF-8.
Outputs ==
    [ran : BOOLEAN, success : BOOLEAN, utf8 : BOOLEAN,
     stdout : UNION {[1..n -> {"X-Powered-By: PHP", "CRLF", "LF", "<p>hello"}] :
                        n \in 0..MaxOutput}]

\* str::splitn(2, "\r\n\r\n"): where the first CRLF CRLF starts, 0 when the
\* text holds none.
FirstSeparator(output) ==
    LET At(i) == output[i] = "CRLF" /\ output[i + 1] = "CRLF" IN
    IF \E i \in 1..(Len(output) - 1) : At(i)
    THEN CHOOSE i \in 1..(Len(output) - 1) : At(i) /\ \A j \in 1..(i - 1) : ~At(j)
    ELSE 0

\* A runner that does not look at the exit status.
run_php_script_ignoring_status(res, output) ==
    IF ~output.ran \/ ~output.utf8 \/ FirstSeparator(output.stdout) = 0
    THEN [err |-> "PhpError", res |-> res]
    ELSE [err |-> "None",
          res |-> set_body(
                      set_raw_headers(res,
                          SubSeq(output.stdout, 1, FirstSeparator(output.stdout) - 1)
                              \o <<"CRLF">>),
                      Bytes(SubSeq(output.stdout, FirstSeparator(output.stdout) + 2,
                                   Len(output.stdout))))]

\* ResBuilder::run_php_script, from the output of the interpreter on.
run_php_script(res, output) ==
    IF ~output.ran \/ ~output.success \/ ~output.utf8
          \/ FirstSeparator(output.stdout) = 0
    THEN [err |-> "PhpError", res |-> res]
    ELSE [err |-> "None",
          res |-> set_body(
                      set_raw_headers(res,
                          SubSeq(output.stdout, 1, FirstSeparator(output.stdout) - 1)
                              \o <<"CRLF">>),
                      Bytes(SubSeq(output.stdout, FirstSeparator(output.stdout) + 2,
                                   Len(output.stdout))))]

\* The handler's use of the runner: the built response when the runner
\* succeeds, build_error(500, true) when it returns an error.
serve_php_script(ran) ==
    IF ran.err # "None"
    THEN build_error(HttpRes_new(<<"HTTP/1.1">>), 500, TRUE)
    ELSE do_build(ran.res)

InitCgi ==
    /\ HandlerIdle
    /\ ServerIdle
    /\ be \in {[output |-> o, done |-> FALSE,
                ran |-> [err |-> "None", res |-> HttpRes_new(<<"HTTP/1.1">>)],
                sent |-> HttpRes_new(<<"HTTP/1.1">>)] : o \in Outputs}

\* The script is run and the response for the client is built.
RunScript ==
    /\ ~be.done
    /\ LET Ran(ran) == be' = [be EXCEPT !.done = TRUE, !.ran = ran,
                                         !.sent = serve_php_script(ran)]
       IN Ran(run_php_script(HttpRes_new(<<"HTTP/1.1">>), be.output))
    /\ UNCHANGED <<hvars, svars>>

NextCgi == RunScript

SpecCgi == InitCgi /\ [][NextCgi]_vars

(***************************************************************************)
(* server.rs: how the handler takes lines off the stream, by their length. *)
(***************************************************************************)

\* The limit given to take() for each line.
LineCap == 8000

\* What the peer has sent and the handler has not read yet: the physical
\* lines in order, each with its length in bytes (its line feed included)
\* and whether it ends with a line feed.  Only the last one may lack it.
LineLengths == {1, 2, LineCap - 1, LineCap, LineCap + 1, 2 * LineCap, 2 * LineCap + 1}
PhysicalLines == [len : LineLengths, nl : BOOLEAN]
Streams ==
    {s \in UNION {[1..n -> PhysicalLines] : n \in 0..MaxLines} :
        \A i \in 1..(Len(s) - 1) : s[i].nl}

\* A read_until on the whole reader: it goes on to the line feed.
read_until_without_take(stream, closed) ==
    IF stream = <<>>
    THEN [ready |-> closed, line |-> 0, rest |-> stream]
    ELSE [ready |-> Head(stream).nl \/ closed,
          line |-> Head(stream).len, rest |-> Tail(stream)]

\* buf_reader.take(8000) and read_until(b'\n') on it: whether the call
\* returns with what has been sent, the number of bytes it leaves in `line`
\* and what is left to read.  It returns at the line feed, at the limit, or
\* at the end of the stream.
read_until(stream, closed) ==
    IF stream = <<>>
    THEN [ready |-> closed, line |-> 0, rest |-> stream]
    ELSE IF Head(stream).len > LineCap
    THEN [ready |-> TRUE, line |-> LineCap,
          rest |-> <<[Head(stream) EXCEPT !.len = @ - LineCap]>> \o Tail(stream)]
    ELSE [ready |-> Head(stream).nl \/ closed \/ Head(stream).len = LineCap,
          line |-> Head(stream).len, rest |-> Tail(stream)]

InitRead ==
    /\ HandlerIdle
    /\ ServerIdle
    /\ be \in {[stream |-> s, sent |-> s, closed |-> FALSE, pc |-> "ReadHead",
                line |-> 0, handed |-> <<>>] : s \in Streams}

\* The peer closes the connection.
PeerCloses ==
    /\ ~be.closed
    /\ be' = [be EXCEPT !.closed = TRUE]
    /\ UNCHANGED <<hvars, svars>>

\* Lines 152-173, one turn of the inner loop: a line is read into a new
\* buffer; an empty one ends the handler, any other is handed to the parser.
\* The parser wants more lines, or the head ends there (complete or
\* rejected) and is answered: the handler then closes, or goes on with a
\* new reader, and what the old reader had buffered (here: nothing, or the
\* next physical line) is lost.
ReadUntil ==
    /\ be.pc = "ReadHead"
    /\ LET Turn(result) ==
           /\ result.ready
           /\ IF result.line = 0
              THEN be' = [be EXCEPT !.line = 0, !.pc = "Closed"]
              ELSE \E next \in {"more", "head", "head and loss", "close"} :
                      be' = [be EXCEPT
                               !.line = result.line,
                               !.handed = Append(@, result.line),
                               !.stream = IF next = "head and loss" /\ result.rest # <<>>
                                          THEN Tail(result.rest)
                                          ELSE result.rest,
                               !.pc = IF next = "close" THEN "Closed" ELSE "ReadHead"]
       IN Turn(read_until(be.stream, be.closed))
    /\ UNCHANGED <<hvars, svars>>

\* Lines 159-163: the read fails and the handler leaves its loop.
ReadUntilFails ==
    /\ be.pc = "ReadHead"
    /\ be' = [be EXCEPT !.line = 0, !.pc = "Closed"]
    /\ UNCHANGED <<hvars, svars>>

NextRead == PeerCloses \/ ReadUntil \/ ReadUntilFails

SpecRead == InitRead /\ [][NextRead]_vars

(***************************************************************************)
(* server.rs: the handler and a peer that stops in the middle.             *)
(***************************************************************************)

\* Heads that are served and leave the connection open, one that closes it,
\* one that is rejected at its second line, one that do_parse rejects, one
\* that announces a body of 5 bytes and is followed by it, and one for a
\* file of no bytes.
ClosingHeads ==
    { <<ReqLine("POST", Lipsum), Hdr("Content-Length", <<"5">>), EndOfHead,
        <<"q=ab", "LF">>>>,
      <<ReqLine("GET", <<"/", "subdir", "/", "-old", "/", "empty">>), HostLine,
        EndOfHead>> } \cup
    { <<ReqLine("GET", Lipsum), HostLine, EndOfHead>>,
      <<ReqLine("GET", Lipsum), Hdr("Accept", Json), Hdr("Connection", <<"keep-alive">>),
        EndOfHead>>,
      <<ReqLine("GET", Lipsum), Hdr("Connection", <<"close">>), EndOfHead>>,
      <<ReqLine("GET", Lipsum), <<"Host", " ", "example.org", "CRLF">>, EndOfHead>>,
      <<ReqLine("foo", <<"/">>), Hdr("Accept", <<"text/html">>), EndOfHead>> }

\* The lines of the requests rs as they stand on the wire, each with the
\* request it belongs to and whether it stands in the head or, after the
\* empty line, in the body.
RECURSIVE WireOf(_, _)
WireOf(rs, n) ==
    IF rs = <<>> THEN <<>>
    ELSE [i \in 1..Len(Head(rs)) |->
            [req |-> n, bytes |-> Head(rs)[i],
             part |-> IF \E j \in 1..(i - 1) : Head(rs)[j] = EndOfHead
                      THEN "body" ELSE "head"]]
            \o WireOf(Tail(rs), n + 1)

\* The peer has sent up to MaxRequests heads, the last one maybe in part.
InitClose ==
    /\ settings = [document_root |-> DocumentRoot, allow_dir_listing |-> FALSE,
                   authentication_credentials |-> NoAuth]
    /\ \E rs \in UNION {[1..n -> ClosingHeads] : n \in 1..MaxRequests} :
          /\ reqs = rs
          /\ \E k \in 0..Len(WireOf(rs, 1)) : wire = SubSeq(WireOf(rs, 1), 1, k)
    /\ peer_closed = FALSE
    /\ pc = "ReadHead"
    /\ req_head_parser = reset(ReqHeadParser_new)
    /\ req_parsing_error = "None"
    /\ current_req = NoReq
    /\ stream_shutdown = FALSE
    /\ cur = 0
    /\ raised = FALSE
    /\ hist = <<>>
    /\ be = BeIdle
    /\ ServerIdle

\* handle, lines 159-163 and 174-176: a read error ends the handler.
ReadError ==
    /\ pc = "ReadHead"
    /\ pc' = "Closed"
    /\ UNCHANGED <<settings, wire, peer_closed, reqs, req_head_parser, req_parsing_error,
                   current_req, stream_shutdown, cur, raised, hist, be, svars>>

\* handle, line 147: each turn of the outer loop reads through a new
\* BufReader, and the lines that the reader of the turn before had taken
\* from the socket into its buffer without handing them out are lost with
\* it.  The peer decides by the timing of its writes how many these are.
ReaderDropped ==
    /\ pc = "ReadHead"
    /\ req_head_parser.state = "RequestLine"
    /\ hist # <<>>
    /\ wire # <<>>
    /\ wire' = Tail(wire)
    /\ UNCHANGED <<settings, peer_closed, reqs, pc, req_head_parser, req_parsing_error,
                   current_req, stream_shutdown, cur, raised, hist, be, svars>>

\* A step of the handler that needs nothing but the handler being run.
HandlerStep ==
    ReadLine \/ ReadLineFails \/ ReadEof \/ HandleReqParsingError \/ ServeReq \/ ParseFails

NextClose == PeerClose \/ ReadError \/ ReaderDropped \/ HandlerStep

\* The handler can take a step, and a step that it takes: each step of the
\* handler changes pc or takes a line off the wire, and no step of the peer
\* does.
HandlerMoves ==
    /\ pc = "AfterHead" \/ (pc = "ReadHead" /\ (wire # <<>> \/ peer_closed))
    /\ pc' \in {"ReadHead", "AfterHead", "Closed"}
    /\ wire' \in {wire, IF wire = <<>> THEN wire ELSE Tail(wire)}

\* The runtime polls a task that can go on: the handler is not left for
\* ever with a step that it can take.
SpecClose == InitClose /\ [][NextClose]_vars /\ WF_<<pc, wire>>(HandlerMoves)

(***************************************************************************)
(* What the peer sent, read off the wire without the handler's state.      *)
(***************************************************************************)

\* The lines of r fed to a fresh parser, as the handler's inner loop does.
RECURSIVE Feed(_, _)
Feed(p, lines) ==
    IF lines = <<>> \/ is_complete(p)
    THEN [err |-> "None", parser |-> p, rest |-> lines]
    ELSE LET r == process_bytes(p, Head(lines)) IN
         IF r.err # "None"
         THEN [err |-> r.err, parser |-> p, rest |-> Tail(lines)]
         ELSE Feed(r.parser, Tail(lines))

\* r is one complete head that the parser accepts as a whole.
WellFormed(r) ==
    LET f == Feed(ReqHeadParser_new, r) IN
    /\ f.err = "None"
    /\ is_complete(f.parser)
    /\ f.rest = <<>>
    /\ \A d \in do_parse(f.parser) : d.err = "None"

HeadOf(r) == (CHOOSE d \in do_parse(Feed(ReqHeadParser_new, r).parser) : TRUE).val

\* r has the header line `Connection: close`.
CarriesClose(r) == \E i \in 1..Len(r) : r[i] = Hdr("Connection", <<"close">>)

\* The entries of hist that answer a failed head with 400.
FailedHead(e) ==
    (e.stage = "process_error" /\ e.raised) \/ e.stage = "parse_error"

HasBody(res) == res.body.kind # "None" /\ ~ResBody_is_empty(res.body)

(***************************************************************************)
(* Properties.                                                             *)
(***************************************************************************)

\* C1: for every GET with a path target, a file is opened or a directory is
\* listed only if canonicalize(document_root + decoded_path) starts with
\* document_root; a target that resolves outside the document root is answered
\* with 403 and nothing from outside the root is sent.
C1_NoPathTraversal ==
    \A k \in DOMAIN hist :
        (hist[k].stage = "served" /\ hist[k].current_req.head.verb = "Get"
            /\ hist[k].current_req.head.target.kind = "Path") =>
        LET c == canonicalize(settings.document_root
                                \o hist[k].current_req.head.target.decoded)
            inside == c.err = "None" /\ IsPrefix(Components(settings.document_root), c.val)
        IN
        \A i \in DOMAIN hist[k].sent :
            /\ hist[k].sent[i].built.status_code = 200 => inside
            /\ (c.err = "None" /\ ~inside) => hist[k].sent[i].built.status_code = 403

\* C2: the handler writes exactly one response for each request it reads, and
\* writes it before it reads a line of the next request; a request whose head
\* fails part-way through gets one 400 response, not several.
ResponsesTo(i) ==
    LET RECURSIVE Count(_)
        Count(k) == IF k = 0 THEN 0
                    ELSE Count(k - 1) + (IF hist[k].req = i THEN Len(hist[k].sent) ELSE 0)
    IN Count(Len(hist))

C2_OneResponsePerRequest ==
    \A i \in 1..Len(reqs) :
        /\ ResponsesTo(i) <= 1
        /\ cur > i => ResponsesTo(i) = 1

\* C3: after a failed head has been answered with 400, a later well-formed
\* request on the same connection is parsed and served with its own status.
C3_ServesAfterBadRequest ==
    \A k \in DOMAIN hist :
        ((\E j \in 1..(k - 1) : FailedHead(hist[j])) /\ WellFormed(reqs[hist[k].req])) =>
            /\ hist[k].stage = "served"
            /\ hist[k].sent = serve_req(settings, SomeReq(HeadOf(reqs[hist[k].req])))

\* C4: after the response to a request carrying `Connection: close` the
\* handler shuts the stream down and serves nothing more; after the response
\* to a request without it the connection is kept open.
C4_ConnectionClose ==
    \A k \in DOMAIN hist :
        /\ (WellFormed(reqs[hist[k].req]) /\ CarriesClose(reqs[hist[k].req])
              /\ hist[k].sent # <<>>) =>
                (hist[k].closed /\ k = Len(hist) /\ pc = "Closed" /\ stream_shutdown)
        /\ ~CarriesClose(reqs[hist[k].req]) => ~hist[k].closed

\* C5: every head-parsing failure, raised by process_bytes or by do_parse, is
\* answered with 400 Bad Request with a body.
C5_ParseFailureIs400 ==
    \A k \in DOMAIN hist :
        FailedHead(hist[k]) =>
            /\ Len(hist[k].sent) = 1
            /\ hist[k].sent[1].written.status_code = 400
            /\ HasBody(hist[k].sent[1].written)

\* C6: when the settings carry credentials, a request without credentials or
\* with credentials equal to no configured pair is answered with 401 with a
\* body and nothing is served for it.
Authenticated(head) ==
    /\ head.authentication_credentials.some
    /\ \E i \in 1..Len(settings.authentication_credentials.creds) :
          settings.authentication_credentials.creds[i] =
             <<head.authentication_credentials.user, head.authentication_credentials.pass>>

C6_AuthGate ==
    settings.authentication_credentials.some =>
        \A k \in DOMAIN hist :
            (hist[k].stage = "served" /\ ~Authenticated(hist[k].current_req.head)) =>
                /\ Len(hist[k].sent) = 1
                /\ hist[k].sent[1].written.status_code = 401
                /\ HasBody(hist[k].sent[1].written)

\* C7: a 401 response built by build_error, with or without a body, carries
\* WWW-Authenticate: Basic realm="simple", and build_error adds that header
\* for no other status.
C7_Challenge ==
    be.done =>
        /\ has_header(be.res, "WWW-Authenticate") <=> be.status = 401
        /\ be.status = 401 =>
              be.res.headers["WWW-Authenticate"] = Plain(<<"Basic realm=\"simple\"">>)

C7_Witness == be.done /\ be.status = 401 /\ ~be.with_body /\ be.res.status_code = 401

\* C8: when the request carries an Accept header and the response to be sent
\* has a MIME Content-Type, the response is replaced by 415 without body and
\* with Content-Length 0 if and only if no entry of the Accept list is
\* compatible with that type, whatever the q values; otherwise it is sent as
\* it is.  The 415 response is written as build_error made it.
Accepts(entry, actual) ==
    /\ entry.atom.kind = "Mime"
    /\ MimeTable[entry.atom.m].type \in {"*", MimeTable[actual].type}
    /\ MimeTable[entry.atom.m].subtype \in {"*", MimeTable[actual].subtype}

\* The entry answers a well-formed request that carries an Accept header with
\* a response that has a MIME Content-Type.
Negotiated(e) ==
    /\ WellFormed(reqs[e.req])
    /\ <<"accept">> \in DOMAIN HeadOf(reqs[e.req]).headers
    /\ e.sent # <<>>
    /\ has_header(e.sent[1].built, "Content-Type")
    /\ e.sent[1].built.headers["Content-Type"].kind = "Mime"

Is415NoBody(res) ==
    /\ res.status_code = 415
    /\ res.body.kind = "None"
    /\ has_header(res, "Content-Length")
    /\ res.headers["Content-Length"] = Plain(<<"0">>)
    /\ ~has_header(res, "Content-Type")

C8_ContentNegotiation ==
    \A k \in DOMAIN hist :
        Negotiated(hist[k]) =>
            LET items == HeadOf(reqs[hist[k].req]).headers[<<"accept">>].items
                built == hist[k].sent[1].built
                written == hist[k].sent[1].written
                some == \E j \in 1..Len(items) :
                            Accepts(items[j], built.headers["Content-Type"].m)
            IN
            /\ ~some <=> Is415NoBody(written)
            /\ some => written = built

\* C9: a response replaced by 415 never closes the connection: afterwards the
\* handler reads the next head, unless the request carried Connection: close,
\* in which case the connection is closed as after any other response.
Replaced(e) == e.sent # <<>> /\ e.sent[1].written # e.sent[1].built

C9_NegotiationKeepsConnection ==
    \A k \in DOMAIN hist :
        Replaced(hist[k]) =>
            /\ hist[k].closed => CarriesClose(reqs[hist[k].req])
            /\ WellFormed(reqs[hist[k].req]) =>
                  (hist[k].closed <=> CarriesClose(reqs[hist[k].req]))
            /\ (k = Len(hist) /\ ~CarriesClose(reqs[hist[k].req])) =>
                  (pc # "Closed" \/ (peer_closed /\ ~stream_shutdown))
            /\ (k = Len(hist) /\ hist[k].closed) => (pc = "Closed" /\ stream_shutdown)

\* C10: a well-formed request whose verb is POST, PUT, PATCH or DELETE is
\* accepted by the parser and answered with 405 with a body; only GET reaches
\* the static-resource flow.
C10_OtherVerbsGet405 ==
    \A k \in DOMAIN hist :
        (hist[k].stage = "served"
            /\ hist[k].current_req.head.verb \in {"Post", "Put", "Patch", "Delete"}) =>
                /\ Len(hist[k].sent) = 1
                /\ hist[k].sent[1].written.status_code = 405
                /\ HasBody(hist[k].sent[1].written)

(***************************************************************************)
(* Directories.                                                            *)
(***************************************************************************)

\* The path the handler looks up for the request of entry e.
FullPath(e) == settings.document_root \o e.current_req.head.target.decoded

\* The entry serves a GET whose path passes the prefix test and is a directory.
ServesDirectory(e) ==
    /\ e.stage = "served"
    /\ e.current_req.head.verb = "Get"
    /\ e.current_req.head.target.kind = "Path"
    /\ starts_with(FullPath(e), settings.document_root)
    /\ is_dir(FullPath(e))

IsListing(res) ==
    /\ res.status_code = 200
    /\ res.body.kind = "Bytes"
    /\ res.body.bytes # <<>>
    /\ Head(res.body.bytes) = "Index of"
    /\ has_header(res, "Content-Type")
    /\ res.headers["Content-Type"] = Mime("text/html; charset=utf-8")

Is403WithBody(res) == res.status_code = 403 /\ res.body = Bytes(ErrorPage(403))

\* The body of res holds the name of an entry of the directory of entry e.
NamesAnEntry(e, res) ==
    \E p \in Children(Resolve(FullPath(e)).val) :
        \E i \in 1..Len(res.body.bytes) : res.body.bytes[i] = p[Len(p)][1]

\* What the handler sends without allow_dir_listing for a directory.
Refused(e) ==
    /\ Is403WithBody(e.sent[1].built)
    /\ ~NamesAnEntry(e, e.sent[1].built)
    /\ ~NamesAnEntry(e, e.sent[1].written)

ListedEntries(bytes) ==
    LET links == SelectSeq([i \in 1..Len(bytes) |-> i], LAMBDA i : bytes[i] = ">") IN
    [n \in 1..Len(links) |->
        [name |-> bytes[links[n] + 1],
         is_dir |-> links[n] + 2 <= Len(bytes) /\ bytes[links[n] + 2] = "/"]]

\* C12: in every directory listing every directory entry precedes every file
\* entry and each group is in ascending order of file name; when rel_url is
\* not `/` the `..` entry is the first entry of the list, whatever the names
\* of the directory's entries, and when rel_url is `/` there is no `..` entry.
C12_ListingOrder ==
    \A k \in DOMAIN hist :
        (hist[k].sent # <<>> /\ IsListing(hist[k].sent[1].built)) =>
            LET es == ListedEntries(hist[k].sent[1].built.body.bytes)
                rel_url == hist[k].current_req.head.target.decoded
                first == IF rel_url = <<"/">> THEN 1 ELSE 2
            IN
            /\ rel_url # <<"/">> => (es # <<>> /\ es[1] = [name |-> "..", is_dir |-> TRUE])
            /\ \A i \in first..Len(es) : es[i].name # ".."
            /\ \A i, j \in first..Len(es) :
                  i < j =>
                    /\ es[i].is_dir \/ ~es[j].is_dir
                    /\ es[i].is_dir = es[j].is_dir =>
                          NameRank(es[i].name) < NameRank(es[j].name)

(***************************************************************************)
(* Filesystem errors.                                                      *)
(***************************************************************************)

\* The entry serves a GET whose path passes the prefix test.
LooksUp(e) ==
    /\ e.stage = "served"
    /\ e.current_req.head.verb = "Get"
    /\ e.current_req.head.target.kind = "Path"
    /\ starts_with(FullPath(e), settings.document_root)

\* The kind of the error the filesystem answers to the handler's calls for
\* entry e: the path does not resolve, or the handler opens a file or lists a
\* directory it has no permission for.  "None" when all calls succeed.
FsErrorKind(e) ==
    LET r == Resolve(FullPath(e)) IN
    IF r.err # "None" THEN r.err
    ELSE IF r.val \in Unreadable /\ (Files[r.val].is_dir => settings.allow_dir_listing)
    THEN "PermissionDenied"
    ELSE "None"

\* C13: a filesystem error met while resolving, listing or reading a resource
\* is answered with a body and with 404 for NotFound, 403 for
\* PermissionDenied and 500 for any other kind; the response is never 200 and
\* the connection is closed afterwards only if the request asked for it.
C13_IoErrorMapping ==
    \A k \in DOMAIN hist :
        (LooksUp(hist[k]) /\ FsErrorKind(hist[k]) # "None") =>
            LET status == CASE FsErrorKind(hist[k]) = "NotFound" -> 404
                            [] FsErrorKind(hist[k]) = "PermissionDenied" -> 403
                            [] OTHER -> 500
            IN
            /\ Len(hist[k].sent) = 1
            /\ hist[k].sent[1].built.status_code = status
            /\ hist[k].sent[1].built.body = Bytes(ErrorPage(status))
            /\ hist[k].sent[1].written.status_code # 200
            /\ hist[k].closed => CarriesClose(reqs[hist[k].req])
            /\ (k = Len(hist) /\ ~hist[k].closed) => ~stream_shutdown

\* A PermissionDenied error and an error of another kind have been answered.
C13_Witness ==
    /\ \E k \in DOMAIN hist :
          /\ LooksUp(hist[k])
          /\ FsErrorKind(hist[k]) = "PermissionDenied"
          /\ hist[k].sent[1].written.status_code = 403
    /\ \E k \in DOMAIN hist :
          /\ LooksUp(hist[k])
          /\ FsErrorKind(hist[k]) = "NotADirectory"
          /\ hist[k].sent[1].written.status_code = 500

(***************************************************************************)
(* Response heads.                                                         *)
(***************************************************************************)

\* The responses written to the socket so far.
Written ==
    UNION {{hist[k].sent[i].written : i \in DOMAIN hist[k].sent} : k \in DOMAIN hist}

\* C14: every response written with a non-empty body has a Content-Length
\* header whose value is the number of body bytes written: the length of the
\* vector for a Bytes body, the number of bytes copied from the file for a
\* Stream body.
C14_ContentLength ==
    \A w \in Written :
        HasBody(w) =>
            /\ has_header(w, "Content-Length")
            /\ w.headers["Content-Length"] = Number(Len(w.body.bytes))

\* A streamed file and a body held in memory have been written.
C14_Witness ==
    /\ \E w \in Written : w.body.kind = "Stream" /\ Len(w.body.bytes) > StreamThreshold
    /\ \E w \in Written : w.body.kind = "Bytes" /\ w.body.bytes # <<>>

\* Responses as a builder holds them before do_build, with and without a Date
\* and a Server header of their own.
Unbuilt ==
    LET fresh == HttpRes_new(<<"HTTP/1.1">>)
        Dated(r) == {r, set_header(r, "Date", Plain(<<"earlier">>))}
        Servers(r) == {r, set_header(r, "Server", Plain(<<"other-server">>))}
    IN UNION {Servers(r) : r \in Dated(fresh) \cup Dated(set_body(fresh, Bytes(<<"body">>)))}

\* do_build gives every response a Date and a Server header and keeps the
\* value of one that is already there.
DoBuildKeeps ==
    \A r \in Unbuilt :
        \A name \in {"Date", "Server"} :
            /\ has_header(do_build(r), name)
            /\ has_header(r, name) => do_build(r).headers[name] = r.headers[name]

\* C15: every response written to the socket carries a Date and a Server
\* header; do_build adds each of the two only when the response does not have
\* it yet and leaves a value that is already there as it is.
C15_DateAndServer ==
    /\ DoBuildKeeps
    /\ \A k \in DOMAIN hist :
          \A i \in DOMAIN hist[k].sent :
              /\ has_header(hist[k].sent[i].written, "Date")
              /\ has_header(hist[k].sent[i].written, "Server")
              /\ hist[k].sent[i].written.headers["Server"] = Plain(<<"rust-http-server">>)

\* A file and a replacement response without body have been written, each
\* with both headers.
C15_Witness ==
    \E k, l \in DOMAIN hist :
        /\ hist[k].sent # <<>> /\ hist[l].sent # <<>>
        /\ hist[k].sent[1].written.status_code = 200
        /\ hist[l].sent[1].written.status_code = 415
        /\ has_header(hist[k].sent[1].written, "Date")
        /\ has_header(hist[l].sent[1].written, "Server")

\* The entry sends the content of a file.
ServesFile(e) ==
    /\ LooksUp(e)
    /\ ~is_dir(FullPath(e))
    /\ FsErrorKind(e) = "None"

\* C16: a response carries Content-Encoding if and only if its body was
\* compressed, that is if and only if the request selected an encoding and it
\* is answered with a file whose MIME top-level type is text; the value of the
\* header is the token of the encoding.  Error responses and listings never
\* carry it.
C16_ContentEncoding ==
    \A k \in DOMAIN hist :
        \A i \in DOMAIN hist[k].sent :
            LET e == hist[k]
                w == e.sent[i].written
                compressed ==
                    /\ ServesFile(e)
                    /\ e.current_req.head.encoding # "None"
                    /\ MimeTable[GuessMime(FullPath(e))].type = "text"
                    /\ w.status_code = 200
            IN
            /\ has_header(w, "Content-Encoding") <=> compressed
            /\ compressed =>
                  w.headers["Content-Encoding"] = Plain(<<e.current_req.head.encoding>>)

\* C17: head_bytes is the status line `version SP code SP reason CRLF`, then
\* one `name: value CRLF` line for each header of the response, in any order,
\* then the raw CGI header block as it was set when there is one, then one
\* final CRLF; the reason is the phrase of the code and `Unknown Error` for a
\* code outside the table.
C17_HeadBytes ==
    be.done =>
        LET res == be.res
            raw == IF res.raw_headers.some THEN res.raw_headers.raw ELSE <<>>
            names == DOMAIN res.headers
            block == SubSeq(be.bytes, 7, Len(be.bytes) - 1 - Len(raw))
            lines == Split(block, "CRLF")
        IN
        /\ Len(be.bytes) >= 7 + Len(raw)
        /\ SubSeq(be.bytes, 1, 6)
              = res.version \o <<" ", ToString(res.status_code), " ",
                                 get_reason_phrase(res.status_code), "CRLF">>
        /\ res.status_code \in {299, 418, 599} => be.bytes[5] = "Unknown Error"
        /\ res.status_code = 404 => be.bytes[5] = "Not Found"
        /\ be.bytes[Len(be.bytes)] = "CRLF"
        /\ SubSeq(be.bytes, Len(be.bytes) - Len(raw), Len(be.bytes) - 1) = raw
        /\ Len(lines) = Cardinality(names) + 1
        /\ lines[Len(lines)] = <<>>
        /\ \A n \in names :
              \E i \in 1..Cardinality(names) :
                  lines[i] = <<n, ":", " ">> \o DisplayValue(res.headers[n])

\* The head of a CGI response with its raw header block has been serialized.
C17_Witness ==
    /\ be.done
    /\ be.res.raw_headers.some
    /\ Cardinality(DOMAIN be.res.headers) >= 3
    /\ Len(be.bytes) > 7 + Len(be.res.raw_headers.raw)

(***************************************************************************)
(* Header folding.                                                         *)
(***************************************************************************)

\* The header lines of the head that the parser has been given so far,
\* trimmed, up to the empty line.
FedLines ==
    LET r == reqs[1]
        fed == [i \in 1..(Len(r) - Len(wire) - 1) |-> Trim(r[i + 1])]
    IN SelectSeq(fed, LAMBDA l : l # <<>>)

HasColon(l) == \E i \in 1..Len(l) : l[i] = ":"
NameOf(l) == to_ascii_lowercase(Trim(SubSeq(l, 1, Position(l, ":") - 1)))
ValueOf(l) == TrimStart(SubSeq(l, Position(l, ":") + 1, Len(l)))

\* The header a line belongs to: the name on the last line with a colon up to
\* and including line i.
Owner(ls, i) ==
    LET j == CHOOSE j \in 1..i :
                 HasColon(ls[j]) /\ \A m \in (j + 1)..i : ~HasColon(ls[m])
    IN NameOf(ls[j])

\* What the lines ls give for header n: the values and the continuation lines
\* of n in the order of arrival, nothing in between.
Folded(ls, n) ==
    concat([i \in 1..Len(ls) |->
                IF Owner(ls, i) # n THEN <<>>
                ELSE IF HasColon(ls[i]) THEN ValueOf(ls[i]) ELSE ls[i]])

NoEncodingAsked(r) ==
    \A i \in 2..Len(r) :
        (HasColon(Trim(r[i])) /\ NameOf(Trim(r[i])) = <<"accept-encoding">>) =>
            ValueOf(Trim(r[i])) = <<>>

\* C19: for a request without Accept-Encoding header, or with one whose value
\* is empty, do_parse does not fail with NoSupportedEncoding and chooses no
\* encoding, and the response is sent without Content-Encoding.
C19_NoEncodingAsked ==
    \A k \in DOMAIN hist :
        (hist[k].stage \in {"served", "parse_error"}
            /\ NoEncodingAsked(reqs[hist[k].req])) =>
                /\ hist[k].err # "NoSupportedEncoding"
                /\ hist[k].stage = "served" =>
                      /\ hist[k].current_req.head.encoding = "None"
                      /\ \A i \in DOMAIN hist[k].sent :
                            ~has_header(hist[k].sent[i].written, "Content-Encoding")

(***************************************************************************)
(* Serializing a parsed head and parsing it again.                         *)
(***************************************************************************)

\* The results of do_parse on the lines, closed by an empty line, given to a
\* new parser; the error of process_bytes when it rejects a line.
Reparse(lines) ==
    LET Parsed_(f) ==
            IF f.err # "None" THEN {Err(f.err)} ELSE do_parse(f.parser)
    IN Parsed_(Feed(ReqHeadParser_new, lines \o <<EndOfHead>>))

\* C20: head parsing is stable under a round trip: a request that parses to
\* H, written with Display (first line, then one `name: value` line for each
\* header) and parsed again gives H; in particular with Parsed values whose
\* entries have one or several parameters, with MIME values and with
\* Credentials.
C20_RoundTrip ==
    \A k \in DOMAIN hist :
        hist[k].stage = "served" =>
            \A lines \in DisplayReqHead(hist[k].current_req.head) :
                Reparse(lines) = {Ok(hist[k].current_req.head)}

(***************************************************************************)
(* Media type matching.                                                   *)
(***************************************************************************)

\* Media types in the text they are written in: top-level type, subtype (the
\* part before a "+suffix") and whether parameters follow.
MediaTypeText ==
    [m \in DOMAIN MimeTable |->
        CASE m = "text/html; charset=utf-8" -> <<"text", "html", TRUE>>
          [] m = "image/svg+xml" -> <<"image", "svg", FALSE>>
          [] m = "text/html" -> <<"text", "html", FALSE>>
          [] m = "text/plain" -> <<"text", "plain", FALSE>>
          [] m = "text/*" -> <<"text", "*", FALSE>>
          [] m = "text/markdown" -> <<"text", "markdown", FALSE>>
          [] m = "application/json" -> <<"application", "json", FALSE>>
          [] m = "application/octet-stream" -> <<"application", "octet-stream", FALSE>>
          [] m = "image/png" -> <<"image", "png", FALSE>>
          [] m = "*/*" -> <<"*", "*", FALSE>>]

\* C21: are_mime_compatible(accepted, actual) is true exactly when accepted's
\* type is * or actual's type, and accepted's subtype is * or actual's subtype,
\* whatever the parameters; a media type accepts itself, */* accepts every
\* type and T/* accepts every type whose top-level type is T.
C21_MimeCompatibility ==
    be.done =>
        LET acc == MediaTypeText[be.accepted]
            act == MediaTypeText[be.actual]
        IN
        /\ be.compatible <=> /\ (acc[1] = "*" \/ acc[1] = act[1])
                              /\ (acc[2] = "*" \/ acc[2] = act[2])
        /\ be.accepted = be.actual => be.compatible
        /\ be.accepted = "*/*" => be.compatible
        /\ acc[2] = "*" /\ acc[1] = act[1] => be.compatible

\* text/* has been matched against text/html with a charset parameter, and
\* was found to accept it.
C21_Witness ==
    /\ be.done
    /\ be.accepted = "text/*"
    /\ be.actual = "text/html; charset=utf-8"
    /\ be.compatible

(***************************************************************************)
(* Error responses.                                                       *)
(***************************************************************************)

\* The error response of each status code as the handler asks for it: 415 is
\* sent without a body, every other error with the page of its code.
Canned ==
    [s \in StatusCodes |-> build_error(HttpRes_new(<<"HTTP/1.1">>), s, s # 415)]

\* The tokens of the headers and of the body of response res.
TextOf(res) ==
    {res.body.bytes[i] : i \in DOMAIN res.body.bytes}
    \cup UNION {{DisplayValue(res.headers[n])[i] :
                    i \in DOMAIN DisplayValue(res.headers[n])} : n \in DOMAIN res.headers}

\* The names of the kinds of filesystem errors.
FsErrorKinds == {"NotFound", "NotADirectory", "PermissionDenied", "IsADirectory"}

\* The names of the errors that the parser has answered on the connection.
ParserErrors == {hist[k].err : k \in DOMAIN hist} \ {"None"}

\* The tokens of the canned error responses.
CannedTexts == UNION {TextOf(Canned[s]) : s \in StatusCodes}

\* No canned response holds the name of a kind of filesystem error.
CannedKeepFsErrors == CannedTexts \cap FsErrorKinds = {}

TaskStep(c) == Read(c) \/ SendResponse(c) \/ Shutdown(c)

\* C23: there is one handler task per accepted connection, spawned with a
\* clone of the settings while the accept loop goes back to accept; while
\* the server runs, a connection of the backlog can be accepted and a task
\* that is not at its end can take its step whatever the other tasks are at
\* (waiting for a head, sending a body), and a step of one task leaves the
\* other tasks as they are.
C23_IndependentHandlers ==
    /\ [](\A c \in Conns :
            /\ sockets[c] = "Accepted" <=> tasks[c].pc # "Unspawned"
            /\ tasks[c].pc # "Unspawned" => tasks[c].settings = settings
            /\ (alive(main_pc) /\ listener.pc = "Accept" /\ sockets[c] = "Backlog")
                  => ENABLED Accept(c)
            /\ (alive(main_pc) /\ tasks[c].pc \notin {"Unspawned", "Done"})
                  => ENABLED TaskStep(c))
    /\ [][\A c \in Conns :
            /\ tasks'[c] # tasks[c] => \A d \in Conns \ {c} : tasks'[d] = tasks[d]
            /\ (tasks[c].pc = "Unspawned" /\ tasks'[c].pc # "Unspawned")
                  => listener'.pc = "Accept" /\ tasks'[c] = spawn(settings)]_vars

\* One connection waits in the backlog, with the accept loop at accept, while
\* the handler of another connection is sending a body.
C23_Witness ==
    \E c, d \in Conns :
        /\ alive(main_pc)
        /\ tasks[c].pc = "WriteBody"
        /\ sockets[d] = "Backlog"
        /\ listener.pc = "Accept"

\* The handler task of connection c takes the step it takes when the socket
\* operation it waits for fails: the read of a line, a write or a flush of
\* send_response, the shutdown.
IoErrorStep(c) ==
    \/ /\ tasks[c].pc = "ReadHead"
       /\ tasks'[c] = handle_read(tasks[c], [kind |-> "Err", respond |-> FALSE,
                                              body |-> FALSE, close |-> FALSE])
    \/ /\ tasks[c].pc \in {"WriteHead", "FlushHead", "WriteBody", "FlushBody"}
       /\ tasks'[c] = send_response_step(tasks[c], FALSE)
    \/ /\ tasks[c].pc = "Shutdown"
       /\ tasks'[c].pc = "Done"

\* C24: a step in which a socket operation of one connection fails leaves
\* main, the accept loop, the other connections and the other handler tasks
\* as they are, and leaves its own task at an await of the handler or at its
\* end; a connection that could not be accepted leaves the loop at accept.
C24_IoErrorsStayInside ==
    [][/\ \A c \in Conns :
            IoErrorStep(c) =>
                /\ main_pc' = main_pc
                /\ listener' = listener
                /\ sockets' = sockets
                /\ \A d \in Conns \ {c} : tasks'[d] = tasks[d]
                /\ tasks'[c].pc \in {"ReadHead", "WriteHead", "FlushHead", "WriteBody",
                                      "FlushBody", "Shutdown", "Done"}
       /\ \A c \in Conns :
            (sockets[c] # "Dropped" /\ sockets'[c] = "Dropped") =>
                /\ main_pc' = main_pc
                /\ listener'.pc = "Accept"
                /\ tasks' = tasks]_vars

\* A write to one connection has failed and its handler has ended, while the
\* handler of another connection is sending and the loop is at accept.
C24_Witness ==
    \E c, d \in Conns :
        /\ alive(main_pc)
        /\ listener.pc = "Accept"
        /\ tasks[c].write_failed
        /\ tasks[c].pc = "Done"
        /\ tasks[d].pc = "WriteBody"

\* C25: once main has taken the quit signal and returned, no connection is
\* accepted and no handler task takes a step: a task stays at the await it
\* was at, whatever was left of its response.
C25_Shutdown ==
    [][main_pc = "Returned" =>
          /\ main_pc' = "Returned"
          /\ listener' = listener
          /\ tasks' = tasks
          /\ \A c \in Conns : sockets'[c] = "Accepted" => sockets[c] = "Accepted"]_vars

\* Main has returned while a handler had written the head of a response and
\* not yet its body, and while a connection was waiting in the backlog.
C25_Witness ==
    \E c, d \in Conns :
        /\ main_pc = "Returned"
        /\ tasks[c].pc = "WriteBody"
        /\ sockets[d] = "Backlog"

\* C26: a handler whose write of a response head or body has failed is at
\* its end: it has not gone on to another write or flush of that response,
\* nor back to reading a head.
C26_WriteFailureCloses ==
    \A c \in Conns : tasks[c].write_failed => tasks[c].pc = "Done"

(***************************************************************************)
(* The --auth-creds argument.                                             *)
(***************************************************************************)

\* The user and the password that each item stands for, <<>> for an item
\* that is not of the form user:password with both parts non-empty.
CredOf ==
    [it \in CredItems |->
        CASE it = <<"foo", ":", "bar">> -> << <<"foo">>, <<"bar">> >>
          [] it = <<"bar", ":", "foo">> -> << <<"bar">>, <<"foo">> >>
          [] it = <<"foo", ":", "b", ":", "c">> -> << <<"foo">>, <<"b", ":", "c">> >>
          [] OTHER -> <<>>]

\* The item lists that make up the argument arg.
ItemsOf(arg) ==
    {its \in UNION {[1..n -> CredItems] : n \in 1..MaxCreds} : join(its, ",") = arg.val}

\* C27: parse_authentication_credentials answers Ok(None) to no argument;
\* to an argument whose items all are user:password with both parts
\* non-empty it answers the pairs, split at the first colon, in the order
\* of the items; to any other argument, the empty one included, it answers
\* an error and no list.
C27_AuthCredsArgument ==
    be.done =>
        /\ ~be.argument.some => be.result = Ok(NoAuth)
        /\ be.argument.some =>
              \A its \in ItemsOf(be.argument) :
                  IF \A i \in DOMAIN its : CredOf[its[i]] # <<>>
                  THEN be.result = Ok(SomeAuth([i \in DOMAIN its |-> CredOf[its[i]]]))
                  ELSE be.result.err # "None" /\ be.result.val = <<>>

\* The argument foo:b:c,bar:foo has been parsed to two pairs in the order of
\* its items, the first password holding the second colon.
C27_Witness ==
    /\ be.done
    /\ be.argument = SomeArgument(<<"foo", ":", "b", ":", "c", ",", "bar", ":", "foo">>)
    /\ be.result = Ok(SomeAuth(<< << <<"foo">>, <<"b", ":", "c">> >>,
                                  << <<"bar">>, <<"foo">> >> >>))

(***************************************************************************)
(* The states of the head parser.                                          *)
(***************************************************************************)

StateRank(state) ==
    CASE state = "RequestLine" -> 1 [] state = "Headers" -> 2 [] state = "Done" -> 3

\* The line holds nothing but its terminator.
IsEmptyLine(l) == l \in {<<>>, <<"CRLF">>, <<"LF">>}

\* The line holds a token that is not whitespace, and ASCII bytes only.
HasText(l) ==
    /\ \E i \in DOMAIN l : l[i] \notin Whitespace
    /\ \A i \in DOMAIN l : l[i] \notin NonAscii

\* s is the line l without whitespace at its two ends.
IsTextOf(s, l) ==
    \E i, j \in DOMAIN l :
        /\ s = SubSeq(l, i, j)
        /\ \A k \in DOMAIN l : (k < i \/ k > j) => l[k] \in Whitespace

WithoutTerminator(l) ==
    IF l # <<>> /\ l[Len(l)] \in {"CRLF", "LF"} THEN SubSeq(l, 1, Len(l) - 1) ELSE l

\* C30: process takes one trailing CRLF or LF off the line and nothing else:
\* the request line is stored with the whitespace it came with, and a line
\* of spaces and tabs neither ends the head nor counts as an empty first
\* line.
C30_TrimsTerminatorOnly ==
    [][(pc = "ReadHead" /\ wire # <<>> /\ wire' = Tail(wire)) =>
          LET line == Head(wire).bytes
              p == req_head_parser
              q == req_head_parser'
          IN
          /\ (p.state = "RequestLine" /\ q.state = "Headers") =>
                q.raw_req_head.request_line = WithoutTerminator(line)
          /\ (WithoutTerminator(line) # <<>> /\ p.state = "Headers") => q.state # "Done"
          /\ (WithoutTerminator(line) # <<>> /\ p.state = "RequestLine") =>
                req_parsing_error' # "FirstLine(EmptyLine)"]_vars

(***************************************************************************)
(* The parser from one head to the next.                                   *)
(***************************************************************************)

\* The place, among the lines of its head, of the line the handler reads next.
NextLineIndex ==
    LET r == Head(wire).req IN
    Len(reqs[r]) - Cardinality({i \in DOMAIN wire : wire[i].req = r}) + 1

\* C29: the handler never gives a line to a parser that is in state Done;
\* when it has dealt with a head, the parser is back in state RequestLine
\* with an empty request line, an empty header map and no last header name;
\* and a line without a colon that follows the request line of a later head
\* fails with Header(NoColon), the header map staying empty.
C29_ResetBetweenHeads ==
    /\ [](pc = "ReadHead" => req_head_parser.state # "Done")
    /\ [][(pc = "AfterHead" /\ pc' # "AfterHead") =>
            req_head_parser' = [state |-> "RequestLine",
                                raw_req_head |-> [request_line |-> <<>>,
                                                  headers |-> <<>>,
                                                  last_header_name |-> NoName]]]_vars
    /\ [][(/\ pc = "ReadHead" /\ wire # <<>> /\ wire' = Tail(wire)
           /\ hist # <<>>
           /\ req_head_parser.state = "Headers"
           /\ NextLineIndex = 2
           /\ ~HasColon(Head(wire).bytes)
           /\ HasText(Head(wire).bytes)) =>
              /\ raised'
              /\ req_parsing_error' = "Header(NoColon)"
              /\ req_head_parser'.raw_req_head.headers = <<>>]_vars

\* After a request with headers has been served, the head that follows has
\* been rejected with Header(NoColon).
C29_Witness ==
    \E k \in DOMAIN hist :
        /\ k > 1
        /\ hist[k - 1].stage = "served"
        /\ hist[k - 1].current_req.head.headers # <<>>
        /\ hist[k].stage = "process_error"
        /\ hist[k].err = "Header(NoColon)"

(***************************************************************************)
(* The path and the query of a request target.                             *)
(***************************************************************************)

\* The tokens of s before its first t, all of s when it holds none.
Before(s, t) == IF Position(s, t) = 0 THEN s ELSE SubSeq(s, 1, Position(s, t) - 1)

\* The tokens of s after its first t, none when it holds no t.
After(s, t) == IF Position(s, t) = 0 THEN <<>> ELSE SubSeq(s, Position(s, t) + 1, Len(s))

\* C31: for every target other than `*` that parses, the decoded path is the
\* percent-decoding of the part before the first `?`, and the query is all
\* that follows the first `?` up to the first `#`, left undecoded, however
\* many `?` the target holds; without `?` the query is empty.
C31_PathAndQuery ==
    (be.which = "target" /\ be.done /\ be.input # <<"*">> /\ be.result.err = "None") =>
        /\ be.result.val.decoded = decode(Before(be.input, "?"))
        /\ be.result.val.query = Before(After(be.input, "?"), "#")

(***************************************************************************)
(* The items of a list-valued header, read off the value itself.           *)
(***************************************************************************)

\* The comma-separated items of a value, each without the whitespace
\* around it.
WireItems(value) == [i \in DOMAIN Split(value, ",") |-> Trim(Split(value, ",")[i])]

\* The atoms of a value in wire order: each item up to its first `;`.
WireAtoms(value) == [i \in DOMAIN WireItems(value) |-> Before(WireItems(value)[i], ";")]

\* The positions of the atoms that are exactly gzip, deflate, zstd or br.
SupportedAt(value) ==
    {i \in DOMAIN WireAtoms(value) :
        WireAtoms(value)[i] \in {<<"gzip">>, <<"deflate">>, <<"zstd">>, <<"br">>}}

\* C32: when the value of Accept-Encoding parses, do_parse chooses the first
\* atom in wire order that is exactly gzip, deflate, zstd or br, whatever
\* the q parameters and whatever unsupported atoms stand before it; when no
\* atom is one of the four, do_parse fails with NoSupportedEncoding.
C32_FirstSupportedEncoding ==
    (be.which = "encoding" /\ be.done
        /\ parse_header_value(be.input, "plain").err = "None") =>
        IF SupportedAt(be.input) = {}
        THEN be.result = {Err("NoSupportedEncoding")}
        ELSE \A r \in be.result :
                /\ r.err = "None"
                /\ \E i \in SupportedAt(be.input) :
                      /\ \A j \in SupportedAt(be.input) : i <= j
                      /\ <<r.val.encoding>> = WireAtoms(be.input)[i]

\* `identity;Q=1,br;q=0.8` has chosen br, the second atom, in spite of the
\* higher q of the unsupported atom before it.
C32_Witness ==
    /\ be.which = "encoding"
    /\ be.done
    /\ be.input = <<"identity", ";", "Q", "=", "1", ",", "br", ";", "q", "=", "0.8">>
    /\ \A r \in be.result : r.err = "None" /\ r.val.encoding = "br"

(***************************************************************************)
(* The entries of a list-valued header.                                    *)
(***************************************************************************)

\* The `;`-separated parts of an item after its atom.
WireParams(item) == Tail(Split(item, ";"))

\* A parameter is written `name` or `name=value`.
ParamName(p) == Before(p, "=")
ParamValue(p) == After(p, "=")
EqualSigns(p) == Len(Split(p, "=")) - 1
IsQ(p) == to_ascii_lowercase(ParamName(p)) = <<"q">>
IsBadQ(p) ==
    IsQ(p) /\ ~(Len(ParamValue(p)) = 1 /\ ParamValue(p)[1] \in DOMAIN FloatTable)

\* The key and the value a parameter is stored under.
ParamKey(p) == IF IsQ(p) THEN Quality ELSE OtherName(ParamName(p))
ParamStored(p) ==
    IF IsQ(p) THEN Float(FloatTable[ParamValue(p)[1]]) ELSE OtherValue(ParamValue(p))

\* The entry of an item: its atom, and for each parameter name the value of
\* the last parameter of that name.
EntryOf(entry, item) ==
    /\ entry.atom = Plain(Before(item, ";"))
    /\ DOMAIN entry.params = {ParamKey(WireParams(item)[j]) : j \in DOMAIN WireParams(item)}
    /\ \A j \in DOMAIN WireParams(item) :
          (\A k \in DOMAIN WireParams(item) :
              k > j => ParamKey(WireParams(item)[k]) # ParamKey(WireParams(item)[j]))
          => entry.params[ParamKey(WireParams(item)[j])] = ParamStored(WireParams(item)[j])

\* Some parameter of the value has the property.
SomeParam(value, Has(_)) ==
    \E i \in DOMAIN WireItems(value) :
        \E j \in DOMAIN WireParams(WireItems(value)[i]) :
            Has(WireParams(WireItems(value)[i])[j])

TwoEqualSigns(p) == EqualSigns(p) > 1

\* C33: parse_header_value gives one entry per comma-separated item, in wire
\* order, from the item without the whitespace around it: the atom is the
\* text before the first `;`, a parameter named q in any case is stored
\* under Quality and any other under Other(name), a repeated parameter keeps
\* its last value; a parameter with more than one `=` makes the parse fail
\* with InvalidMime (with InvalidFloat when a q that is no number is met
\* first), and a value without such parameters parses.
C33_HeaderValueEntries ==
    (be.which = "value" /\ be.done) =>
        /\ be.result.err = "None" =>
              /\ be.result.val.kind = "Parsed"
              /\ Len(be.result.val.items) = Len(WireItems(be.input))
              /\ \A i \in DOMAIN WireItems(be.input) :
                    EntryOf(be.result.val.items[i], WireItems(be.input)[i])
        /\ SomeParam(be.input, TwoEqualSigns) =>
              /\ be.result.err \in {"Header(InvalidMime)", "Header(InvalidFloat)"}
              /\ ~SomeParam(be.input, IsBadQ) => be.result = Err("Header(InvalidMime)")
        /\ (~SomeParam(be.input, TwoEqualSigns) /\ ~SomeParam(be.input, IsBadQ)) =>
              be.result.err = "None"

\* ` zstd ,deflate;a=b;a=c` has given two entries: zstd without parameters
\* and deflate whose parameter a holds c, the value given last.
C33_Witness ==
    /\ be.which = "value"
    /\ be.done
    /\ be.input = <<" ", "zstd", " ", ",", "deflate", ";", "a", "=", "b", ";", "a", "=", "c">>
    /\ be.result.err = "None"
    /\ Len(be.result.val.items) = 2
    /\ be.result.val.items[1] = [atom |-> Plain(<<"zstd">>), params |-> <<>>]
    /\ be.result.val.items[2].params[OtherName(<<"a">>)] = OtherValue(<<"c">>)

(***************************************************************************)
(* The response of a script.                                               *)
(***************************************************************************)

\* s holds CRLF CRLF somewhere.
HasSeparator(s) == \E i \in 1..(Len(s) - 1) : s[i] = "CRLF" /\ s[i + 1] = "CRLF"

\* C34: the runner yields a response only when the interpreter has exited
\* with status zero: then the raw header block is the part of stdout before
\* its first CRLF CRLF (with the end of its last line) and the body is the
\* part after it, in memory; when the interpreter fails, or its output holds
\* no CRLF CRLF, the runner returns an error and the client is sent 500 with
\* the error page, never a 200 that carries output of the script.
C34_ScriptResponse ==
    be.done =>
        /\ be.ran.err = "None" =>
              /\ be.output.ran /\ be.output.success
              /\ \E h, b \in {SubSeq(be.output.stdout, i, j) :
                                i \in 1..(Len(be.output.stdout) + 1),
                                j \in 0..Len(be.output.stdout)} :
                    /\ be.output.stdout = h \o <<"CRLF", "CRLF">> \o b
                    /\ ~HasSeparator(h \o <<"CRLF">>)
                    /\ be.ran.res.raw_headers = [some |-> TRUE, raw |-> h \o <<"CRLF">>]
                    /\ be.ran.res.body = [kind |-> "Bytes", bytes |-> b, len |-> Len(b)]
              /\ be.sent.status_code = 200
              /\ be.sent.body = be.ran.res.body
        /\ (~be.output.success \/ ~HasSeparator(be.output.stdout)) =>
              /\ be.ran.err # "None"
              /\ be.sent.status_code = 500
              /\ be.sent.body.kind = "Bytes"
              /\ be.sent.body.bytes = ErrorPage(500)
              /\ ~be.sent.raw_headers.some
        /\ (be.output.ran /\ be.output.success /\ be.output.utf8
               /\ HasSeparator(be.output.stdout)) => be.ran.err = "None"

\* The interpreter has exited with a failure after it had written a whole
\* head and a part of the page: the client is sent 500 with the error page.
C34_Witness ==
    /\ be.done
    /\ be.output.ran
    /\ ~be.output.success
    /\ be.output.stdout = <<"X-Powered-By: PHP", "CRLF", "CRLF", "<p>hello">>
    /\ be.sent.status_code = 500
    /\ be.sent.body.bytes = ErrorPage(500)

(***************************************************************************)
(* The length of the lines.                                                *)
(***************************************************************************)

\* C35: whatever the peer has sent, the line buffer never holds more than
\* 8,000 bytes, no slice handed to the head parser is longer than that, and
\* a physical line longer than the limit has not been handed over whole.
C35_LineCap ==
    /\ be.line <= 8000
    /\ \A i \in DOMAIN be.handed : be.handed[i] <= 8000
    /\ \A i \in DOMAIN be.sent : \A j \in DOMAIN be.handed :
          be.sent[i].len > 8000 => be.handed[j] # be.sent[i].len

\* A single physical line of 8,001 bytes has been read: as 8,000 bytes and
\* then as 1 byte.
C35_Witness ==
    /\ be.sent = <<[len |-> 8001, nl |-> TRUE]>>
    /\ be.handed = <<8000, 1>>
    /\ be.stream = <<>>

(***************************************************************************)
(* The end of the handler.                                                 *)
(***************************************************************************)

\* C36: a zero-length read or a read error while a head is read, also in
\* the middle of a head, makes the handler leave its loop without writing
\* a response; once it has left the loop it writes nothing more; and once
\* the peer has closed the connection the handler leaves its loop.
C36_ClosedPeerEndsHandler ==
    /\ [][(pc = "ReadHead" /\ pc' = "Closed") => hist' = hist]_vars
    /\ [][pc = "Closed" => (pc' = "Closed" /\ hist' = hist)]_vars
    /\ [](peer_closed => <>(pc = "Closed"))

\* The peer has closed after the request line of its second head: the
\* handler has ended with the first head answered and nothing else written.
C36_Witness ==
    /\ peer_closed
    /\ pc = "Closed"
    /\ ~stream_shutdown
    /\ wire = <<>>
    /\ cur = 2
    /\ req_head_parser.state = "Headers"
    /\ Len(hist) = 1
    /\ hist[1].req = 1

(***************************************************************************)
(* The request a response is negotiated against.                           *)
(***************************************************************************)

\* C37: the answer to a head that failed to parse is written as it was
\* built, never replaced by 415 on account of the Accept header of a request
\* served before it on the connection: no request is current while the
\* answer to a rejected head is written.
C37_NegotiationUsesOwnRequest ==
    \A k \in DOMAIN hist :
        hist[k].stage # "served" =>
            \A n \in DOMAIN hist[k].sent :
                /\ hist[k].sent[n].written.status_code # 415
                /\ hist[k].sent[n].written = hist[k].sent[n].built

(***************************************************************************)
(* A TLS handshake that is under way.                                      *)
(***************************************************************************)

\* C38: while the TLS handshake of a connection has not ended, the listener
\* can accept a connection that waits in its backlog.
C38_HandshakeLeavesAcceptFree ==
    \A c, d \in Conns :
        (main_pc = "Select" /\ sockets[d] = "Handshake" /\ sockets[c] = "Backlog") =>
            ENABLED Accept(c)

(***************************************************************************)
(* The body of a request.                                                  *)
(***************************************************************************)

\* C39: the bytes of a body announced by Content-Length are never given to
\* the head parser: no line that the handler takes off the wire and hands
\* to the parser stands in the body of a request.
C39_BodyNotParsedAsHead ==
    [][(ReadLine \/ ReadLineFails) => Head(wire).part # "body"]_vars

(***************************************************************************)
(* The length of a response on a connection that stays open.               *)
(***************************************************************************)

\* The value of Content-Length says n.
SaysLength(v, n) ==
    \/ v.kind = "Number" /\ v.n = n
    \/ v.kind = "Plain" /\ v.s = <<ToString(n)>>

\* C40: every response written on a connection that is kept open carries a
\* Content-Length header, which says 0 when the response has no body or an
\* empty one.
C40_ContentLengthOnOpenConnection ==
    \A k \in DOMAIN hist :
        ~hist[k].closed =>
            \A n \in DOMAIN hist[k].sent :
                /\ has_header(hist[k].sent[n].written, "Content-Length")
                /\ ~HasBody(hist[k].sent[n].written) =>
                      SaysLength(hist[k].sent[n].written.headers["Content-Length"], 0)

====
